---- MODULE Spec2Model ----
(***************************************************************************)
(* Modbus TCP slave simulator: the register/coil data store               *)
(* (src-tauri/src/data_store.rs), the frame codec (modbus_protocol.rs)    *)
(* and the per-connection handler and dispatcher (server.rs).             *)
(*                                                                         *)
(* Addresses are u16 and the banks hold 65536 cells each.  The model       *)
(* tracks the cells at the bottom and at the top of the address space      *)
(* (CellAddrs); address arithmetic keeps its 16-bit width.                 *)
(***************************************************************************)
EXTENDS Integers, Sequences, FiniteSets, TLC

VARIABLES
    \* ---- ModbusDataStore (data_store.rs:29-50)
    coils, discrete_inputs, input_registers, holding_registers,
    variables,
    defined_coils, defined_discrete_inputs,
    defined_holding_registers, defined_input_registers,
    \* ---- the build profile: TRUE when integer overflow panics (debug),
    \*      FALSE when it wraps (release)
    overflow_checks,
    \* ---- the last data-store call made by the sequential caller
    last, nloads, nops,
    \* ---- one connection (server.rs:298-425): the configured unit id, the
    \*      frames the client sends, its bytes not yet read by the handler,
    \*      the handler's reassembly buffer, its position, the response it
    \*      is about to write, the responses written, the frames drained
    unit_id, requests, wire, frame_buffer, hpc, response, sent, ndrained,
    \* ---- threads calling into one shared store: each thread's call,
    \*      position and locals; the holders of the store's RwLocks; the
    \*      contents of the holding registers each time their exclusive
    \*      lock was released
    threads, locks, hr_versions,
    \* ---- ModbusServer (server.rs:38-55) and its tasks: the server's
    \*      fields, the call the controller is making, the accept loops
    \*      spawned by start() and the connection handlers they spawned
    server, control, accept, handlers,
    \* ---- telemetry (server.rs:51-54, 124-135, 197, 428-432): whether an
    \*      app handle is set, the id counters (0: the server's
    \*      log_id_counter, g: the Arc the g-th start() made for its accept
    \*      loop and its handlers), the entries emitted to the UI
    app_handle, log_id_counter, log

storeVars == << coils, discrete_inputs, input_registers, holding_registers,
                variables, defined_coils, defined_discrete_inputs,
                defined_holding_registers, defined_input_registers >>

callVars == << last, nloads, nops >>

connVars == << unit_id, requests, wire, frame_buffer, hpc, response, sent,
               ndrained >>

concVars == << threads, locks, hr_versions >>

serverVars == << server, control, accept, handlers >>

logVars == << app_handle, log_id_counter, log >>

vars == << coils, discrete_inputs, input_registers, holding_registers,
           variables, defined_coils, defined_discrete_inputs,
           defined_holding_registers, defined_input_registers,
           overflow_checks, last, nloads, nops,
           unit_id, requests, wire, frame_buffer, hpc, response, sent,
           ndrained, threads, locks, hr_versions,
          server, control, accept, handlers,
          app_handle, log_id_counter, log >>

(***************************************************************************)
(* Bounds of the model                                                     *)
(***************************************************************************)
\* variables may start at addresses 0..LowAddrs-1 ...
LowAddrs == 2
\* ... and at the HighAddrs topmost addresses 65536-HighAddrs..65535
HighAddrs == 1
\* largest count of a read, largest length of a multi-cell write
MaxCount == 2
\* load_variables calls per behaviour
MaxLoads == 1
\* other data-store calls per behaviour
MaxOps == 1

(***************************************************************************)
(* Program constants                                                       *)
(***************************************************************************)
\* number of values of a u16 (addresses, counts, register cells)
U16 == 65536
DEFAULT_COILS_SIZE == 65536
DEFAULT_DISCRETE_INPUTS_SIZE == 65536
DEFAULT_INPUT_REGISTERS_SIZE == 65536
DEFAULT_HOLDING_REGISTERS_SIZE == 65536

Areas == {"Coil", "DiscreteInput", "InputRegister", "HoldingRegister"}
BitAreas == {"Coil", "DiscreteInput"}
RegisterAreas == {"InputRegister", "HoldingRegister"}
DataTypes == {"Bool", "Uint16", "Int16", "Uint32", "Float32"}

VarIds == <<"v1", "v2">>

VarAddrs == (0 .. LowAddrs - 1) \cup ((U16 - HighAddrs) .. (U16 - 1))
\* the cells the model tracks: every cell a variable of the model can cover
CellAddrs == VarAddrs \cup {a + 1 : a \in {x \in VarAddrs : x + 1 < U16}}

(***************************************************************************)
(* ModbusValue (types.rs:96-171).  A Number is an f64; the model keeps the *)
(* integers as two words, value = hi * 65536 + lo with lo in 0..65535, and *)
(* every other f64 the program can produce as the bits of the f32 it was   *)
(* read from.                                                              *)
(***************************************************************************)
Bool(x) == [kind |-> "Bool", b |-> x, hi |-> 0, lo |-> 0]
NumberWords(h, l) == [kind |-> "Number", b |-> FALSE, hi |-> h, lo |-> l]
Number(x) == NumberWords(x \div U16, x % U16)
Null == [kind |-> "Null", b |-> FALSE, hi |-> 0, lo |-> 0]
\* a Number that is not an integer below 2^32 in magnitude: the words of
\* the f32 bit pattern it was read from
NumberF32(h, l) == [kind |-> "F32", b |-> FALSE, hi |-> h, lo |-> l]

RECURSIVE Pow2(_)
Pow2(k) == IF k = 0 THEN 1 ELSE 2 * Pow2(k - 1)

RECURSIVE FloorLog2(_)
FloorLog2(x) == IF x < 2 THEN 0 ELSE 1 + FloorLog2(x \div 2)

\* -x on the two-word form
Negate(h, l) == NumberWords(- h - (IF l > 0 THEN 1 ELSE 0), (U16 - l) % U16)

\* the integer part of the float with the given f32 bits, as Rust's
\* float-to-integer `as` takes it before saturating: NaN is 0, a magnitude
\* of 2^32 or more is kept as hi = 65536
F32Trunc(v) ==
    LET sign == v.hi \div 32768
        ex == (v.hi \div 128) % 256
        frac == (v.hi % 128) * U16 + v.lo
        mant == Pow2(23) + frac
        sh == ex - 150
        whole == IF sh < 0 THEN mant \div Pow2(- sh) ELSE mant
        h == IF sh > 8 THEN U16
             ELSE IF sh >= 0 THEN mant \div Pow2(16 - sh)
             ELSE whole \div U16
        l == IF sh > 8 THEN 0
             ELSE IF sh >= 0 THEN (mant % Pow2(16 - sh)) * Pow2(sh)
             ELSE whole % U16
    IN  IF ex = 255 /\ frac # 0 THEN NumberWords(0, 0)
        ELSE IF ex < 127 THEN NumberWords(0, 0)
        ELSE IF sign = 0 THEN NumberWords(h, l)
        ELSE Negate(h, l)

IntPart(v) == IF v.kind = "F32" THEN F32Trunc(v) ELSE v

\* ModbusValue::as_bool (types.rs:104-110)
as_bool(v) ==
    CASE v.kind = "Bool" -> v.b
      [] v.kind = "Number" -> v.hi # 0 \/ v.lo # 0
      [] v.kind = "F32" -> v.hi % 32768 # 0 \/ v.lo # 0
      [] OTHER -> FALSE

\* ModbusValue::as_u16 (types.rs:113-125): `*n as u16` saturates
as_u16(v) ==
    CASE v.kind = "Bool" -> IF v.b THEN 1 ELSE 0
      [] v.kind \in {"Number", "F32"} ->
           LET w == IntPart(v)
           IN  IF w.hi < 0 THEN 0 ELSE IF w.hi > 0 THEN U16 - 1 ELSE w.lo
      [] OTHER -> 0

\* ModbusValue::as_i16 (types.rs:128-140): `*n as i16` saturates
as_i16(v) ==
    CASE v.kind = "Bool" -> IF v.b THEN 1 ELSE 0
      [] v.kind \in {"Number", "F32"} ->
           LET w == IntPart(v)
           IN  IF w.hi < -1 THEN -32768
               ELSE IF w.hi = -1
               THEN (IF w.lo < 32768 THEN -32768 ELSE w.lo - U16)
               ELSE IF w.hi = 0
               THEN (IF w.lo > 32767 THEN 32767 ELSE w.lo)
               ELSE 32767
      [] OTHER -> 0

\* ModbusValue::as_u32 (types.rs:143-155): `*n as u32` saturates; the
\* result as its high and low word
as_u32(v) ==
    CASE v.kind = "Bool" -> [hi |-> 0, lo |-> IF v.b THEN 1 ELSE 0]
      [] v.kind \in {"Number", "F32"} ->
           LET w == IntPart(v)
           IN  IF w.hi < 0 THEN [hi |-> 0, lo |-> 0]
               ELSE IF w.hi >= U16 THEN [hi |-> U16 - 1, lo |-> U16 - 1]
               ELSE [hi |-> w.hi, lo |-> w.lo]
      [] OTHER -> [hi |-> 0, lo |-> 0]

\* the f32 nearest to the integer of magnitude h * 65536 + l (h below 2^24),
\* ties to even, as the words of its bit pattern
F32BitsOfInt(neg, h, l) ==
    LET k == FloorLog2(h) + 1
        exact == h < 256
        m == h * U16 + l
        e0 == IF exact THEN FloorLog2(m) ELSE 15 + k
        q0 == IF exact THEN m * Pow2(23 - e0)
              ELSE h * Pow2(24 - k) + l \div Pow2(k - 8)
        r == IF exact THEN 0 ELSE l % Pow2(k - 8)
        half == IF exact THEN 1 ELSE Pow2(k - 9)
        up == r > half \/ (r = half /\ q0 % 2 = 1)
        q1 == IF up THEN q0 + 1 ELSE q0
        e == IF q1 = Pow2(24) THEN e0 + 1 ELSE e0
        frac == IF q1 = Pow2(24) THEN 0 ELSE q1 - Pow2(23)
    IN  IF h = 0 /\ l = 0 THEN [hi |-> 0, lo |-> 0]
        ELSE [hi |-> (IF neg THEN 32768 ELSE 0) + (e + 127) * 128
                     + frac \div U16,
              lo |-> frac % U16]

\* ModbusValue::as_f32 (types.rs:158-170) followed by to_bits
as_f32_bits(v) ==
    CASE v.kind = "Bool" -> IF v.b THEN F32BitsOfInt(FALSE, 0, 1)
                            ELSE [hi |-> 0, lo |-> 0]
      [] v.kind = "Number" ->
           IF v.hi < 0
           THEN LET n == Negate(v.hi, v.lo) IN F32BitsOfInt(TRUE, n.hi, n.lo)
           ELSE F32BitsOfInt(FALSE, v.hi, v.lo)
      [] v.kind = "F32" -> [hi |-> v.hi, lo |-> v.lo]
      [] OTHER -> [hi |-> 0, lo |-> 0]

\* f32::from_bits(bits) as f64, the bits given as two words
F32FromBits(h, l) ==
    LET ex == (h \div 128) % 256
        frac == (h % 128) * U16 + l
        mant == Pow2(23) + frac
        sh == ex - 150
        integral == sh >= 0 \/ (sh >= -23 /\ mant % Pow2(- sh) = 0)
    IN  IF ex = 0 /\ frac = 0 THEN NumberWords(0, 0)
        ELSE IF ex = 0 \/ ex = 255 \/ sh > 8 \/ sh < -23 \/ ~ integral
        THEN NumberF32(h, l)
        ELSE F32Trunc(NumberF32(h, l))

\* ModbusDataType::register_count (types.rs:35-43)
register_count(dt) == IF dt \in {"Uint32", "Float32"} THEN 2 ELSE 1


(***************************************************************************)
(* ModbusDataStore: the operations as functions of a store record          *)
(***************************************************************************)
Store == [coils |-> coils, discrete_inputs |-> discrete_inputs,
          input_registers |-> input_registers,
          holding_registers |-> holding_registers,
          variables |-> variables,
          defined_coils |-> defined_coils,
          defined_discrete_inputs |-> defined_discrete_inputs,
          defined_holding_registers |-> defined_holding_registers,
          defined_input_registers |-> defined_input_registers]

\* ModbusDataStore::new (data_store.rs:60-72)
NewStore == [coils |-> [a \in CellAddrs |-> FALSE],
             discrete_inputs |-> [a \in CellAddrs |-> FALSE],
             input_registers |-> [a \in CellAddrs |-> 0],
             holding_registers |-> [a \in CellAddrs |-> 0],
             variables |-> << >>,
             defined_coils |-> {},
             defined_discrete_inputs |-> {},
             defined_holding_registers |-> {},
             defined_input_registers |-> {}]

\* HashMap::insert on the catalog
MapInsert(m, id, v) ==
    [k \in DOMAIN m \cup {id} |-> IF k = id THEN v ELSE m[k]]

\* mark_addresses_defined: the loop `for i in 0..register_count` with the
\* u16 addition var.address + i.  With overflow checks the addition panics
\* after the addresses before it were inserted; without, it wraps.
MarkRegisters(defined, address, count, oc) ==
    IF count = 2 /\ address + 1 >= U16
    THEN IF oc THEN [set |-> defined \cup {address}, panic |-> TRUE]
         ELSE [set |-> defined \cup {address, (address + 1) % U16},
               panic |-> FALSE]
    ELSE [set |-> defined \cup {address + i : i \in 0 .. count - 1},
          panic |-> FALSE]

mark_addresses_defined(st, var, oc) ==
    LET rc == IF var.data_type \in {"Uint32", "Float32"} THEN 2 ELSE 1
    IN  CASE var.area = "Coil" ->
               [st |-> [st EXCEPT !.defined_coils = @ \cup {var.address}],
                panic |-> FALSE]
          [] var.area = "DiscreteInput" ->
               [st |-> [st EXCEPT !.defined_discrete_inputs =
                                        @ \cup {var.address}],
                panic |-> FALSE]
          [] var.area = "HoldingRegister" ->
               LET m == MarkRegisters(st.defined_holding_registers,
                                      var.address, rc, oc)
               IN  [st |-> [st EXCEPT !.defined_holding_registers = m.set],
                    panic |-> m.panic]
          [] OTHER ->
               LET m == MarkRegisters(st.defined_input_registers,
                                      var.address, rc, oc)
               IN  [st |-> [st EXCEPT !.defined_input_registers = m.set],
                    panic |-> m.panic]

\* check_addresses_defined: `for addr in start..(start + count)`, the sum
\* taken in u16
check_addresses_defined(defined_set, start, count, oc) ==
    IF start + count >= U16 /\ oc THEN "Panic"
    ELSE LET end == (start + count) % U16
         IN  IF \E addr \in start .. end - 1 : addr \notin defined_set
             THEN "IllegalDataAddress"
             ELSE "Ok"

\* a 32-bit value written low word first
write_register_value_LowFirst(regs, address, data_type, value, size) ==
    LET val == IF data_type = "Uint32" THEN as_u32(value)
               ELSE as_f32_bits(value)
        word == CASE data_type = "Bool" -> IF as_bool(value) THEN 1 ELSE 0
                  [] data_type = "Uint16" -> as_u16(value)
                  [] OTHER -> (as_i16(value) + U16) % U16
    IN  IF data_type \in {"Uint32", "Float32"}
        THEN IF address + 1 < size
             THEN [regs EXCEPT ![address] = val.lo, ![address + 1] = val.hi]
             ELSE regs
        ELSE IF address < size THEN [regs EXCEPT ![address] = word]
        ELSE regs

\* write_register_value
write_register_value(regs, address, data_type, value, size) ==
    CASE data_type = "Bool" ->
           IF address < size
           THEN [regs EXCEPT ![address] = IF as_bool(value) THEN 1 ELSE 0]
           ELSE regs
      [] data_type = "Uint16" ->
           IF address < size
           THEN [regs EXCEPT ![address] = as_u16(value)]
           ELSE regs
      [] data_type = "Int16" ->
           IF address < size
           THEN [regs EXCEPT ![address] = (as_i16(value) + U16) % U16]
           ELSE regs
      [] data_type = "Uint32" ->
           LET val == as_u32(value)
           IN  IF address + 1 < size
               THEN [regs EXCEPT ![address] = val.hi,
                                 ![address + 1] = val.lo]
               ELSE regs
      [] OTHER ->
           LET bits == as_f32_bits(value)
           IN  IF address + 1 < size
               THEN [regs EXCEPT ![address] = bits.hi,
                                 ![address + 1] = bits.lo]
               ELSE regs

\* write_variable_value
write_variable_value(st, var) ==
    CASE var.area = "Coil" ->
           IF var.address < DEFAULT_COILS_SIZE
           THEN [st EXCEPT !.coils[var.address] = as_bool(var.value)]
           ELSE st
      [] var.area = "DiscreteInput" ->
           IF var.address < DEFAULT_DISCRETE_INPUTS_SIZE
           THEN [st EXCEPT !.discrete_inputs[var.address] = as_bool(var.value)]
           ELSE st
      [] var.area = "InputRegister" ->
           [st EXCEPT !.input_registers =
               write_register_value(@, var.address, var.data_type, var.value,
                                    DEFAULT_INPUT_REGISTERS_SIZE)]
      [] OTHER ->
           [st EXCEPT !.holding_registers =
               write_register_value(@, var.address, var.data_type, var.value,
                                    DEFAULT_HOLDING_REGISTERS_SIZE)]

\* the body of load_variables' loop for one variable
LoadOne(st, var, oc) ==
    LET ins == [st EXCEPT !.variables = MapInsert(@, var.id, var)]
        mk == mark_addresses_defined(ins, var, oc)
    IN  IF mk.panic THEN [st |-> mk.st, result |-> "Panic"]
        ELSE [st |-> write_variable_value(mk.st, var), result |-> "Ok"]

RECURSIVE LoadLoop(_, _, _, _)
LoadLoop(st, vs, i, oc) ==
    IF i > Len(vs) THEN [st |-> st, result |-> "Ok"]
    ELSE LET one == LoadOne(st, vs[i], oc)
         IN  IF one.result = "Panic" THEN one
             ELSE LoadLoop(one.st, vs, i + 1, oc)

\* load_variables (data_store.rs:76-113)
load_variables(st, vs, oc) ==
    LoadLoop([st EXCEPT !.variables = << >>,
                        !.defined_coils = {},
                        !.defined_discrete_inputs = {},
                        !.defined_holding_registers = {},
                        !.defined_input_registers = {}],
             vs, 1, oc)

\* update_variable (data_store.rs:247-258)
update_variable(st, id, value) ==
    IF id \in DOMAIN st.variables
    THEN LET var == [st.variables[id] EXCEPT !.value = value]
         IN  [st |-> write_variable_value(
                        [st EXCEPT !.variables[id] = var], var),
              result |-> TRUE]
    ELSE [st |-> st, result |-> FALSE]

\* get_variables (data_store.rs:261-263): the catalog's values, as a set
get_variables(st) == {st.variables[id] : id \in DOMAIN st.variables}

\* the slice bank[start..start+count] as a sequence
Slice(bank, start, count) == [i \in 1 .. count |-> bank[start + i - 1]]

\* read_coils / read_discrete_inputs / read_holding_registers /
\* read_input_registers share this body
ReadBank(bank, defined_set, size, start, count, oc) ==
    LET chk == check_addresses_defined(defined_set, start, count, oc)
    IN  IF chk # "Ok" THEN [result |-> chk, data |-> << >>]
        ELSE IF start + count > size
             THEN [result |-> "IllegalDataAddress", data |-> << >>]
             ELSE [result |-> "Ok", data |-> Slice(bank, start, count)]

read_coils(st, start, count, oc) ==
    ReadBank(st.coils, st.defined_coils, DEFAULT_COILS_SIZE, start, count, oc)

read_discrete_inputs(st, start, count, oc) ==
    ReadBank(st.discrete_inputs, st.defined_discrete_inputs,
             DEFAULT_DISCRETE_INPUTS_SIZE, start, count, oc)

read_holding_registers(st, start, count, oc) ==
    ReadBank(st.holding_registers, st.defined_holding_registers,
             DEFAULT_HOLDING_REGISTERS_SIZE, start, count, oc)

read_input_registers(st, start, count, oc) ==
    ReadBank(st.input_registers, st.defined_input_registers,
             DEFAULT_INPUT_REGISTERS_SIZE, start, count, oc)

\* sync_variable_from_coil (data_store.rs:342-349)
sync_variable_from_coil(vs, address, value) ==
    [id \in DOMAIN vs |->
        IF vs[id].area = "Coil" /\ vs[id].address = address
        THEN [vs[id] EXCEPT !.value = Bool(value)]
        ELSE vs[id]]

\* the value sync_variable_from_register computes for one variable; the
\* variable keeps its value where the code says `continue`
SyncedValue(var, regs, size) ==
    LET addr == var.address
    IN  CASE var.data_type = "Bool" ->
               IF addr < size THEN Bool(regs[addr] # 0) ELSE var.value
          [] var.data_type = "Uint16" ->
               IF addr < size THEN Number(regs[addr]) ELSE var.value
          [] var.data_type = "Int16" ->
               IF addr < size
               THEN Number(IF regs[addr] >= 32768 THEN regs[addr] - U16
                           ELSE regs[addr])
               ELSE var.value
          [] var.data_type = "Uint32" ->
               IF addr + 1 < size
               THEN NumberWords(regs[addr], regs[addr + 1])
               ELSE var.value
          [] OTHER ->
               IF addr + 1 < size
               THEN F32FromBits(regs[addr], regs[addr + 1])
               ELSE var.value

\* every variable whose cells cover the address is synced
sync_variable_from_register_Covering(st, area, address) ==
    IF area \notin RegisterAreas THEN st
    ELSE LET regs == IF area = "HoldingRegister" THEN st.holding_registers
                     ELSE st.input_registers
             size == IF area = "HoldingRegister"
                     THEN DEFAULT_HOLDING_REGISTERS_SIZE
                     ELSE DEFAULT_INPUT_REGISTERS_SIZE
             vs == st.variables
         IN  [st EXCEPT !.variables =
                [id \in DOMAIN vs |->
                    IF /\ vs[id].area = area
                       /\ \/ vs[id].address = address
                          \/ /\ vs[id].data_type \in {"Uint32", "Float32"}
                             /\ vs[id].address + 1 = address
                    THEN [vs[id] EXCEPT !.value = SyncedValue(vs[id], regs, size)]
                    ELSE vs[id]]]

\* sync_variable_from_register (data_store.rs:480-534)
sync_variable_from_register(st, area, address) ==
    IF area \notin RegisterAreas THEN st
    ELSE LET regs == IF area = "HoldingRegister" THEN st.holding_registers
                     ELSE st.input_registers
             size == IF area = "HoldingRegister"
                     THEN DEFAULT_HOLDING_REGISTERS_SIZE
                     ELSE DEFAULT_INPUT_REGISTERS_SIZE
             vs == st.variables
         IN  [st EXCEPT !.variables =
                [id \in DOMAIN vs |->
                    IF vs[id].area = area /\ vs[id].address = address
                    THEN [vs[id] EXCEPT !.value = SyncedValue(vs[id], regs, size)]
                    ELSE vs[id]]]


\* the loop `for (i, &value) in values.iter().enumerate()` over a bank
WriteSlice(bank, start, values) ==
    [a \in DOMAIN bank |->
        IF start <= a /\ a < start + Len(values)
        THEN values[a - start + 1] ELSE bank[a]]

RECURSIVE SyncCoils(_, _, _, _)
SyncCoils(vs, start, values, i) ==
    IF i > Len(values) THEN vs
    ELSE SyncCoils(sync_variable_from_coil(vs, start + i - 1, values[i]),
                   start, values, i + 1)

RECURSIVE SyncRegisters(_, _, _, _)
SyncRegisters(st, start, count, i) ==
    IF i >= count THEN st
    ELSE SyncRegisters(
             sync_variable_from_register(st, "HoldingRegister", start + i),
             start, count, i + 1)

\* write_single_coil (data_store.rs:289-309)
write_single_coil(st, address, value) ==
    IF address \notin st.defined_coils
    THEN [st |-> st, result |-> "IllegalDataAddress"]
    ELSE IF address >= DEFAULT_COILS_SIZE
    THEN [st |-> st, result |-> "IllegalDataAddress"]
    ELSE [st |-> [st EXCEPT
                    !.coils[address] = value,
                    !.variables = sync_variable_from_coil(@, address, value)],
          result |-> "Ok"]

\* write_multiple_coils (data_store.rs:313-339)
write_multiple_coils(st, start, values, oc) ==
    LET chk == check_addresses_defined(st.defined_coils, start,
                                       Len(values) % U16, oc)
    IN  IF chk # "Ok" THEN [st |-> st, result |-> chk]
        ELSE IF start + Len(values) > DEFAULT_COILS_SIZE
        THEN [st |-> st, result |-> "IllegalDataAddress"]
        ELSE [st |-> [st EXCEPT
                        !.coils = WriteSlice(@, start, values),
                        !.variables = SyncCoils(@, start, values, 1)],
              result |-> "Ok"]

\* a write_single_register that stores into the input registers
write_single_register_Input(st, address, value) ==
    [st |-> [st EXCEPT !.input_registers[address] = value], result |-> "Ok"]

\* write_single_register (data_store.rs:401-421)
write_single_register(st, address, value) ==
    IF address \notin st.defined_holding_registers
    THEN [st |-> st, result |-> "IllegalDataAddress"]
    ELSE IF address >= DEFAULT_HOLDING_REGISTERS_SIZE
    THEN [st |-> st, result |-> "IllegalDataAddress"]
    ELSE [st |-> sync_variable_from_register(
                    [st EXCEPT !.holding_registers[address] = value],
                    "HoldingRegister", address),
          result |-> "Ok"]

\* write_multiple_registers (data_store.rs:425-455)
write_multiple_registers(st, start, values, oc) ==
    LET chk == check_addresses_defined(st.defined_holding_registers, start,
                                       Len(values) % U16, oc)
    IN  IF chk # "Ok" THEN [st |-> st, result |-> chk]
        ELSE IF start + Len(values) > DEFAULT_HOLDING_REGISTERS_SIZE
        THEN [st |-> st, result |-> "IllegalDataAddress"]
        ELSE [st |-> SyncRegisters(
                        [st EXCEPT !.holding_registers =
                                       WriteSlice(@, start, values)],
                        start, Len(values), 0),
              result |-> "Ok"]

\* clear (data_store.rs:537-583)
clear(st) == NewStore

(***************************************************************************)
(* The data store driven by one caller: every call is one step             *)
(***************************************************************************)
\* data type and value of the variables the caller loads
TypedValues ==
    { <<"Bool", Bool(TRUE)>>,
      <<"Uint16", Number(4660)>>, <<"Uint16", Null>>,
      <<"Int16", Number(-2)>>, <<"Uint32", Number(65538)>>,
      <<"Float32", Number(1)>> }

\* values update_variable is called with
UpdateValues == {Bool(TRUE), Null, Number(-2), Number(65538)}

\* register values a master writes
RegisterValues == {0, 65534}

Variable(id, area, address, tv) ==
    [id |-> id, area |-> area, address |-> address,
     data_type |-> tv[1], value |-> tv[2]]

\* the lists load_variables is called with: unique ids, in list order
Catalogs ==
    UNION { { [i \in 1 .. n |-> Variable(VarIds[i], f[i][1], f[i][2], f[i][3])] :
                f \in [1 .. n -> Areas \X VarAddrs \X TypedValues] } :
            n \in 0 .. Len(VarIds) }

Lists(S) == UNION { [1 .. n -> S] : n \in 1 .. MaxCount }

NoCall == [op |-> "none", area |-> "none", start |-> 0, count |-> 0,
           values |-> << >>, arg |-> Null, id |-> "none",
           result |-> "none", data |-> << >>, vs |-> << >>]

SetStore(st) ==
    /\ coils' = st.coils
    /\ discrete_inputs' = st.discrete_inputs
    /\ input_registers' = st.input_registers
    /\ holding_registers' = st.holding_registers
    /\ variables' = st.variables
    /\ defined_coils' = st.defined_coils
    /\ defined_discrete_inputs' = st.defined_discrete_inputs
    /\ defined_holding_registers' = st.defined_holding_registers
    /\ defined_input_registers' = st.defined_input_registers

\* the store in the state st
SetStoreTo(st) ==
    /\ coils = st.coils
    /\ discrete_inputs = st.discrete_inputs
    /\ input_registers = st.input_registers
    /\ holding_registers = st.holding_registers
    /\ variables = st.variables
    /\ defined_coils = st.defined_coils
    /\ defined_discrete_inputs = st.defined_discrete_inputs
    /\ defined_holding_registers = st.defined_holding_registers
    /\ defined_input_registers = st.defined_input_registers

StoreInit ==
    /\ coils = NewStore.coils
    /\ discrete_inputs = NewStore.discrete_inputs
    /\ input_registers = NewStore.input_registers
    /\ holding_registers = NewStore.holding_registers
    /\ variables = NewStore.variables
    /\ defined_coils = {}
    /\ defined_discrete_inputs = {}
    /\ defined_holding_registers = {}
    /\ defined_input_registers = {}

\* no connection
ConnIdle ==
    /\ unit_id = 1
    /\ requests = << >>
    /\ wire = << >>
    /\ frame_buffer = << >>
    /\ hpc = "none"
    /\ response = << >>
    /\ sent = << >>
    /\ ndrained = 0

\* no sequential caller
CallIdle ==
    /\ last = NoCall
    /\ nloads = 0
    /\ nops = 0

\* no concurrent callers
ConcIdle ==
    /\ threads = << >>
    /\ locks = << >>
    /\ hr_versions = {}

\* no app handle is set and nothing was logged (server.rs:85-86)
LogIdle ==
    /\ app_handle = FALSE
    /\ log_id_counter = [g \in {0} |-> 1]
    /\ log = << >>

\* no server is modelled
ServerIdle ==
    /\ server = << >>
    /\ control = << >>
    /\ accept = << >>
    /\ handlers = << >>

Init ==
    /\ StoreInit
    /\ overflow_checks \in BOOLEAN
    /\ CallIdle
    /\ ServerIdle
    /\ LogIdle
    /\ ConnIdle
    /\ ConcIdle

CountOp ==
    /\ nops < MaxOps
    /\ nops' = nops + 1
    /\ UNCHANGED << nloads, overflow_checks, connVars, concVars, serverVars, logVars >>

LoadVariables ==
    /\ nloads < MaxLoads
    /\ \E vs \in Catalogs :
         LET r == load_variables(Store, vs, overflow_checks)
         IN  /\ SetStore(r.st)
             /\ last' = [NoCall EXCEPT !.op = "load_variables", !.vs = vs,
                                       !.result = r.result]
    /\ nloads' = nloads + 1
    /\ UNCHANGED << nops, overflow_checks, connVars, concVars, serverVars, logVars >>

UpdateVariable ==
    /\ CountOp
    /\ \E i \in 1 .. Len(VarIds), value \in UpdateValues :
         LET r == update_variable(Store, VarIds[i], value)
         IN  /\ SetStore(r.st)
             /\ last' = [NoCall EXCEPT !.op = "update_variable",
                                       !.id = VarIds[i], !.arg = value,
                                       !.result = IF r.result THEN "true"
                                                  ELSE "false"]

GetVariables ==
    /\ CountOp
    /\ last' = [NoCall EXCEPT !.op = "get_variables", !.result = "Ok",
                              !.data = get_variables(Store)]
    /\ UNCHANGED storeVars

Clear ==
    /\ CountOp
    /\ SetStore(clear(Store))
    /\ last' = [NoCall EXCEPT !.op = "clear", !.result = "Ok"]

ReadOf(area, st, start, count, oc) ==
    CASE area = "Coil" -> read_coils(st, start, count, oc)
      [] area = "DiscreteInput" -> read_discrete_inputs(st, start, count, oc)
      [] area = "HoldingRegister" -> read_holding_registers(st, start, count, oc)
      [] OTHER -> read_input_registers(st, start, count, oc)

Read ==
    /\ CountOp
    /\ \E area \in Areas, start \in CellAddrs, count \in 1 .. MaxCount :
         LET r == ReadOf(area, Store, start, count, overflow_checks)
         IN  last' = [NoCall EXCEPT !.op = "read", !.area = area,
                                    !.start = start, !.count = count,
                                    !.result = r.result, !.data = r.data]
    /\ UNCHANGED storeVars

WriteSingleCoil ==
    /\ CountOp
    /\ \E address \in CellAddrs, value \in BOOLEAN :
         LET r == write_single_coil(Store, address, value)
         IN  /\ SetStore(r.st)
             /\ last' = [NoCall EXCEPT !.op = "write_single_coil",
                                       !.area = "Coil", !.start = address,
                                       !.count = 1, !.values = << value >>,
                                       !.result = r.result]

WriteMultipleCoils ==
    /\ CountOp
    /\ \E start \in CellAddrs, values \in Lists(BOOLEAN) :
         LET r == write_multiple_coils(Store, start, values, overflow_checks)
         IN  /\ SetStore(r.st)
             /\ last' = [NoCall EXCEPT !.op = "write_multiple_coils",
                                       !.area = "Coil", !.start = start,
                                       !.count = Len(values),
                                       !.values = values,
                                       !.result = r.result]

WriteSingleRegister ==
    /\ CountOp
    /\ \E address \in CellAddrs, value \in RegisterValues :
         LET r == write_single_register(Store, address, value)
         IN  /\ SetStore(r.st)
             /\ last' = [NoCall EXCEPT !.op = "write_single_register",
                                       !.area = "HoldingRegister",
                                       !.start = address, !.count = 1,
                                       !.values = << value >>,
                                       !.result = r.result]

WriteMultipleRegisters ==
    /\ CountOp
    /\ \E start \in CellAddrs, values \in Lists(RegisterValues) :
         LET r == write_multiple_registers(Store, start, values,
                                           overflow_checks)
         IN  /\ SetStore(r.st)
             /\ last' = [NoCall EXCEPT !.op = "write_multiple_registers",
                                       !.area = "HoldingRegister",
                                       !.start = start,
                                       !.count = Len(values),
                                       !.values = values,
                                       !.result = r.result]

Next ==
    \/ LoadVariables
    \/ UpdateVariable
    \/ GetVariables
    \/ Clear
    \/ Read
    \/ WriteSingleCoil
    \/ WriteMultipleCoils
    \/ WriteSingleRegister
    \/ WriteMultipleRegisters

Spec == Init /\ [][Next]_vars


(***************************************************************************)
(* Properties of the data store                                            *)
(***************************************************************************)
DefinedOf(area) ==
    CASE area = "Coil" -> defined_coils
      [] area = "DiscreteInput" -> defined_discrete_inputs
      [] area = "HoldingRegister" -> defined_holding_registers
      [] OTHER -> defined_input_registers

\* the addresses start, start+1, ... of a call on count cells
RangeOf(start, count) == start .. start + count - 1

WriteOps == {"write_single_coil", "write_multiple_coils",
             "write_single_register", "write_multiple_registers"}

\* C1: a read of any area whose range [start, start+count) holds an address
\* that is not defined returns IllegalDataAddress.  `last` is the read that
\* just returned; a read leaves the defined-sets as they were.
C1_StrictReads ==
    (last.op = "read"
       /\ \E a \in RangeOf(last.start, last.count) : a \notin DefinedOf(last.area))
    => last.result = "IllegalDataAddress"

\* C2: a protocol write whose range holds an undefined address returns
\* IllegalDataAddress and changes no bank cell and no catalog value;
\* otherwise every cell of the range holds the value written.
C2_WriteStep ==
    LET bank == IF last'.area = "Coil" THEN coils' ELSE holding_registers'
    IN  (nops' # nops /\ last'.op \in WriteOps) =>
          IF \E a \in RangeOf(last'.start, last'.count) :
                 a \notin DefinedOf(last'.area)
          THEN /\ last'.result = "IllegalDataAddress"
               /\ UNCHANGED << coils, discrete_inputs, input_registers,
                               holding_registers, variables >>
          ELSE \A i \in 1 .. last'.count :
                 bank[last'.start + i - 1] = last'.values[i]

C2_AllOrNothing == [][C2_WriteStep]_vars


\* the cells of a read as words: a bit cell counts as 1 or 0
WordsOf(area, data) ==
    IF area \in BitAreas
    THEN [i \in DOMAIN data |-> IF data[i] THEN 1 ELSE 0]
    ELSE data

\* the value a master decodes from the words of a variable of type dt
DecodeWords(dt, words) ==
    CASE dt = "Bool" -> Bool(words[1] # 0)
      [] dt = "Uint16" -> Number(words[1])
      [] dt = "Int16" -> Number(IF words[1] >= 32768 THEN words[1] - U16
                                ELSE words[1])
      [] OTHER -> NumberWords(words[1], words[2])

\* Null reads back as 0 / false
Coerced(var) ==
    IF var.value # Null THEN var.value
    ELSE IF var.data_type = "Bool" THEN Bool(FALSE) ELSE Number(0)

RoundTrips(var) ==
    LET r == ReadOf(var.area, Store, var.address,
                    register_count(var.data_type), overflow_checks)
    IN  /\ r.result = "Ok"
        /\ DecodeWords(var.data_type, WordsOf(var.area, r.data)) = Coerced(var)

\* C7: right after load_variables(V), every variable of V of type Bool,
\* Uint16, Int16 or Uint32 is read back: the read of its register_count
\* cells at its address succeeds and decodes to its value.
C7_RoundTrip ==
    last.op = "load_variables" =>
      \A i \in 1 .. Len(last.vs) :
        last.vs[i].data_type \in {"Bool", "Uint16", "Int16", "Uint32"}
          => RoundTrips(last.vs[i])

\* C8: after load_variables(V), every address v.address + w with
\* w < register_count(v.data_type) of every variable v of V is in the
\* defined-set of v's area.
C8_DefinedCoverage ==
    last.op = "load_variables" =>
      \A i \in 1 .. Len(last.vs) :
        \A w \in 0 .. register_count(last.vs[i].data_type) - 1 :
          last.vs[i].address + w \in DefinedOf(last.vs[i].area)

\* C9: after a successful write_single_coil or write_multiple_coils every
\* Coil variable at a written address has the value Bool(written value),
\* in the catalog and in what get_variables returns, and read_coils of the
\* written range returns the written values.
C9_CoilWriteSync ==
    (last.op \in {"write_single_coil", "write_multiple_coils"}
       /\ last.result = "Ok")
    => /\ \A i \in 1 .. last.count :
            \A var \in get_variables(Store) :
              (var.area = "Coil" /\ var.address = last.start + i - 1)
                => var.value = Bool(last.values[i])
       /\ read_coils(Store, last.start, last.count, overflow_checks)
            = [result |-> "Ok", data |-> last.values]

\* the value C10 expects of a holding-register variable after its address
\* was written; the low word of a Uint32 whose second cell lies beyond
\* address 65535 is left open
Recomputed(var) ==
    LET a == var.address
        regs == holding_registers
    IN  CASE var.data_type = "Bool" -> var.value = Bool(regs[a] # 0)
          [] var.data_type = "Uint16" -> var.value = Number(regs[a])
          [] var.data_type = "Int16" ->
               var.value = Number(IF regs[a] >= 32768 THEN regs[a] - U16
                                  ELSE regs[a])
          [] var.data_type = "Uint32" ->
               /\ var.value.kind = "Number"
               /\ var.value.hi = regs[a]
               /\ a + 1 < U16 => var.value.lo = regs[a + 1]
          [] OTHER -> TRUE

\* C10: after a successful write_single_register or
\* write_multiple_registers every HoldingRegister variable whose address was
\* written has its value recomputed from the current cells.
C10_RegisterWriteSync ==
    (last.op \in {"write_single_register", "write_multiple_registers"}
       /\ last.result = "Ok")
    => \A a \in RangeOf(last.start, last.count) :
         \A id \in DOMAIN variables :
           (variables[id].area = "HoldingRegister"
              /\ variables[id].address = a)
             => Recomputed(variables[id])


(***************************************************************************)
(* Frame codec (modbus_protocol.rs).  A frame is a sequence of bytes;      *)
(* data[i] of the code is data[i + 1] here.                                *)
(***************************************************************************)
MAX_FRAME_SIZE == 260
READ_BUFFER_SIZE == 1024
MbapHeader_SIZE == 7

\* u16::to_be_bytes, u16::from_be_bytes
to_be_bytes(x) == << x \div 256, x % 256 >>
from_be_bytes(hi, lo) == hi * 256 + lo

\* FunctionCode::from_u8 (modbus_protocol.rs:39-51)
FunctionCode_from_u8(code) ==
    CASE code = 1 -> "ReadCoils"
      [] code = 2 -> "ReadDiscreteInputs"
      [] code = 3 -> "ReadHoldingRegisters"
      [] code = 4 -> "ReadInputRegisters"
      [] code = 5 -> "WriteSingleCoil"
      [] code = 6 -> "WriteSingleRegister"
      [] code = 15 -> "WriteMultipleCoils"
      [] code = 16 -> "WriteMultipleRegisters"
      [] OTHER -> "None"

\* ExceptionCode as u8 (modbus_protocol.rs:57-66)
ExceptionCode_as_u8(e) ==
    CASE e = "IllegalFunction" -> 1
      [] e = "IllegalDataAddress" -> 2
      [] e = "IllegalDataValue" -> 3
      [] OTHER -> 4

NoHeader == [transaction_id |-> 0, protocol_id |-> 0, length |-> 0,
             unit_id |-> 0]
NoRequest == [result |-> "Err", header |-> NoHeader, function_code |-> 0,
              data |-> << >>]

\* MbapHeader::parse (modbus_protocol.rs:80-107)
MbapHeader_parse(data) ==
    IF Len(data) < MbapHeader_SIZE THEN [result |-> "Err", header |-> NoHeader]
    ELSE LET protocol_id == from_be_bytes(data[3], data[4])
         IN  IF protocol_id # 0 THEN [result |-> "Err", header |-> NoHeader]
             ELSE [result |-> "Ok",
                   header |-> [transaction_id |-> from_be_bytes(data[1], data[2]),
                               protocol_id |-> protocol_id,
                               length |-> from_be_bytes(data[5], data[6]),
                               unit_id |-> data[7]]]

\* ModbusRequest::parse (modbus_protocol.rs:127-160).  The slice
\* data[pdu_data_start..pdu_data_end] panics when its start exceeds its end.
ModbusRequest_parse(data) ==
    IF Len(data) < MbapHeader_SIZE + 1 THEN NoRequest
    ELSE LET h == MbapHeader_parse(data)
             expected_len == MbapHeader_SIZE - 1 + h.header.length
             pdu_data_start == MbapHeader_SIZE + 1
             pdu_data_end == MbapHeader_SIZE - 1 + h.header.length
         IN  IF h.result = "Err" THEN NoRequest
             ELSE IF Len(data) < expected_len THEN NoRequest
             ELSE IF pdu_data_start > pdu_data_end
             THEN [NoRequest EXCEPT !.result = "Panic"]
             ELSE [result |-> "Ok", header |-> h.header,
                   function_code |-> data[MbapHeader_SIZE + 1],
                   data |-> SubSeq(data, pdu_data_start + 1, pdu_data_end)]

\* ModbusRequest::expected_frame_length (modbus_protocol.rs:164-170);
\* -1 stands for None
expected_frame_length(data) ==
    IF Len(data) < 6 THEN -1
    ELSE MbapHeader_SIZE - 1 + from_be_bytes(data[5], data[6])

\* MbapHeader::write_to (modbus_protocol.rs:109-114)
write_to(header) ==
    to_be_bytes(header.transaction_id) \o to_be_bytes(header.protocol_id)
      \o to_be_bytes(header.length) \o << header.unit_id >>

\* the length field counts the data only
build_response_DataLength(request, function_code, data) ==
    write_to([transaction_id |-> request.header.transaction_id,
              protocol_id |-> 0,
              length |-> Len(data) % U16,
              unit_id |-> request.header.unit_id])
      \o << function_code >> \o data

\* ModbusResponse::build_response (modbus_protocol.rs:178-196)
build_response(request, function_code, data) ==
    write_to([transaction_id |-> request.header.transaction_id,
              protocol_id |-> 0,
              length |-> (2 + (Len(data) % U16)) % U16,
              unit_id |-> request.header.unit_id])
      \o << function_code >> \o data

\* function_code | 0x80 on a byte
OrHighBit(b) == IF b >= 128 THEN b ELSE b + 128

build_exception_PlainFunction(request, function_code, exception_code) ==
    write_to([transaction_id |-> request.header.transaction_id,
              protocol_id |-> 0,
              length |-> 3,
              unit_id |-> request.header.unit_id])
      \o << function_code, ExceptionCode_as_u8(exception_code) >>

\* ModbusResponse::build_exception (modbus_protocol.rs:199-220)
build_exception(request, function_code, exception_code) ==
    write_to([transaction_id |-> request.header.transaction_id,
              protocol_id |-> 0,
              length |-> 3,
              unit_id |-> request.header.unit_id])
      \o << OrHighBit(function_code), ExceptionCode_as_u8(exception_code) >>

\* ReadRequest::parse (modbus_protocol.rs:231-246)
ReadRequest_parse(data) ==
    IF Len(data) < 4
    THEN [result |-> "Err", start_address |-> 0, quantity |-> 0]
    ELSE [result |-> "Ok",
          start_address |-> from_be_bytes(data[1], data[2]),
          quantity |-> from_be_bytes(data[3], data[4])]

\* ReadRequest::validate_bits, validate_registers (modbus_protocol.rs:249-262)
validate_bits(r) ==
    IF r.quantity = 0 \/ r.quantity > 2000 THEN "IllegalDataValue" ELSE "Ok"

validate_registers(r) ==
    IF r.quantity = 0 \/ r.quantity > 125 THEN "IllegalDataValue" ELSE "Ok"

WriteSingleCoilRequest_parse_NonZero(data) ==
    IF Len(data) < 4 THEN [result |-> "Err", address |-> 0, value |-> FALSE]
    ELSE [result |-> "Ok",
          address |-> from_be_bytes(data[1], data[2]),
          value |-> from_be_bytes(data[3], data[4]) # 0]

\* WriteSingleCoilRequest::parse (modbus_protocol.rs:273-297)
WriteSingleCoilRequest_parse(data) ==
    IF Len(data) < 4 THEN [result |-> "Err", address |-> 0, value |-> FALSE]
    ELSE LET value_raw == from_be_bytes(data[3], data[4])
         IN  IF value_raw \notin {0, 65280}
             THEN [result |-> "Err", address |-> 0, value |-> FALSE]
             ELSE [result |-> "Ok",
                   address |-> from_be_bytes(data[1], data[2]),
                   value |-> value_raw = 65280]

\* WriteSingleRegisterRequest::parse (modbus_protocol.rs:316-328)
WriteSingleRegisterRequest_parse(data) ==
    IF Len(data) < 4 THEN [result |-> "Err", address |-> 0, value |-> 0]
    ELSE [result |-> "Ok",
          address |-> from_be_bytes(data[1], data[2]),
          value |-> from_be_bytes(data[3], data[4])]

NoMultiple == [result |-> "Err", start_address |-> 0, quantity |-> 0,
               values |-> << >>]

\* WriteMultipleCoilsRequest::parse (modbus_protocol.rs:347-381)
WriteMultipleCoilsRequest_parse(data) ==
    IF Len(data) < 5 THEN NoMultiple
    ELSE LET quantity == from_be_bytes(data[3], data[4])
             byte_count == data[5]
             expected_bytes == (quantity + 7) \div 8
         IN  IF byte_count # expected_bytes \/ Len(data) < 5 + byte_count
             THEN NoMultiple
             ELSE [result |-> "Ok",
                   start_address |-> from_be_bytes(data[1], data[2]),
                   quantity |-> quantity,
                   values |-> [k \in 1 .. quantity |->
                      (data[5 + (k - 1) \div 8 + 1]
                         \div Pow2((k - 1) % 8)) % 2 = 1]]

\* WriteMultipleRegistersRequest::parse (modbus_protocol.rs:407-440)
WriteMultipleRegistersRequest_parse(data) ==
    IF Len(data) < 5 THEN NoMultiple
    ELSE LET quantity == from_be_bytes(data[3], data[4])
             byte_count == data[5]
             expected_bytes == quantity * 2
         IN  IF byte_count # expected_bytes \/ Len(data) < 5 + byte_count
             THEN NoMultiple
             ELSE [result |-> "Ok",
                   start_address |-> from_be_bytes(data[1], data[2]),
                   quantity |-> quantity,
                   values |-> [k \in 1 .. quantity |->
                      from_be_bytes(data[5 + 2 * (k - 1) + 1],
                                    data[5 + 2 * (k - 1) + 2])]]

\* WriteMultipleCoilsRequest::validate (modbus_protocol.rs:383-388)
validate_coils(r) ==
    IF r.quantity = 0 \/ r.quantity > 1968 THEN "IllegalDataValue" ELSE "Ok"

\* WriteMultipleRegistersRequest::validate (modbus_protocol.rs:442-447)
validate_multiple_registers(r) ==
    IF r.quantity = 0 \/ r.quantity > 123 THEN "IllegalDataValue" ELSE "Ok"

\* to_response_data of the two multiple-write requests
to_response_data(r) == to_be_bytes(r.start_address) \o to_be_bytes(r.quantity)

RECURSIVE BitsValue(_, _, _)
BitsValue(bits, from, k) ==
    IF k > 7 \/ from + k > Len(bits) THEN 0
    ELSE (IF bits[from + k] THEN Pow2(k) ELSE 0) + BitsValue(bits, from, k + 1)

\* the bits of a byte taken from the high end
pack_bits_MsbFirst(bits) ==
    [j \in 1 .. (Len(bits) + 7) \div 8 |->
        LET v == BitsValue(bits, 8 * (j - 1) + 1, 0)
        IN  (v % 16) * 16 + v \div 16]

\* pack_bits (modbus_protocol.rs:458-471)
pack_bits(bits) ==
    [j \in 1 .. (Len(bits) + 7) \div 8 |-> BitsValue(bits, 8 * (j - 1) + 1, 0)]

\* pack_registers (modbus_protocol.rs:474-480)
pack_registers(registers) ==
    [j \in 1 .. 2 * Len(registers) |->
        IF j % 2 = 1 THEN registers[(j + 1) \div 2] \div 256
        ELSE registers[j \div 2] % 256]


(***************************************************************************)
(* Dispatcher (server.rs:538-772).  A handler returns the store after the  *)
(* request, the response frame, and result "Panic" when the call aborts    *)
(* the task.                                                               *)
(***************************************************************************)
Reply(st, bytes) == [st |-> st, result |-> "Ok", response |-> bytes]
Abort(st) == [st |-> st, result |-> "Panic", response |-> << >>]

HandleRead_AddressFirst(request, st, oc, area) ==
    LET read_req == ReadRequest_parse(request.data)
        valid == IF area \in BitAreas THEN validate_bits(read_req)
                 ELSE validate_registers(read_req)
        r == ReadOf(area, st, read_req.start_address, read_req.quantity, oc)
        packed == IF area \in BitAreas THEN pack_bits(r.data)
                  ELSE pack_registers(r.data)
    IN  IF read_req.result = "Err"
        THEN Reply(st, build_exception(request, request.function_code,
                                       "IllegalDataValue"))
        ELSE IF r.result = "Panic" THEN Abort(st)
        ELSE IF r.result # "Ok"
        THEN Reply(st, build_exception(request, request.function_code,
                                       r.result))
        ELSE IF valid # "Ok"
        THEN Reply(st, build_exception(request, request.function_code, valid))
        ELSE Reply(st, build_response(request, request.function_code,
                                      << Len(packed) % 256 >> \o packed))

\* the common body of the four read handlers (server.rs:564-673)
HandleRead(request, st, oc, area) ==
    LET read_req == ReadRequest_parse(request.data)
        valid == IF area \in BitAreas THEN validate_bits(read_req)
                 ELSE validate_registers(read_req)
        r == ReadOf(area, st, read_req.start_address, read_req.quantity, oc)
        packed == IF area \in BitAreas THEN pack_bits(r.data)
                  ELSE pack_registers(r.data)
    IN  IF read_req.result = "Err"
        THEN Reply(st, build_exception(request, request.function_code,
                                       "IllegalDataValue"))
        ELSE IF valid # "Ok"
        THEN Reply(st, build_exception(request, request.function_code, valid))
        ELSE IF r.result = "Panic" THEN Abort(st)
        ELSE IF r.result # "Ok"
        THEN Reply(st, build_exception(request, request.function_code,
                                       r.result))
        ELSE Reply(st, build_response(request, request.function_code,
                                      << Len(packed) % 256 >> \o packed))

handle_read_coils(request, st, oc) == HandleRead(request, st, oc, "Coil")

handle_read_discrete_inputs(request, st, oc) ==
    HandleRead(request, st, oc, "DiscreteInput")

handle_read_holding_registers(request, st, oc) ==
    HandleRead(request, st, oc, "HoldingRegister")

handle_read_input_registers(request, st, oc) ==
    HandleRead(request, st, oc, "InputRegister")

handle_write_single_coil_FourBytes(request, st) ==
    LET write_req == WriteSingleCoilRequest_parse(request.data)
        w == write_single_coil(st, write_req.address, write_req.value)
    IN  IF write_req.result = "Err" \/ w.result # "Ok"
        THEN Reply(st, build_exception(request, request.function_code,
                                       "IllegalDataValue"))
        ELSE Reply(w.st, build_response(request, request.function_code,
                                        SubSeq(request.data, 1, 4)))

\* handle_write_single_coil (server.rs:676-695)
handle_write_single_coil(request, st) ==
    LET write_req == WriteSingleCoilRequest_parse(request.data)
        w == write_single_coil(st, write_req.address, write_req.value)
    IN  IF write_req.result = "Err"
        THEN Reply(st, build_exception(request, request.function_code,
                                       "IllegalDataValue"))
        ELSE IF w.result # "Ok"
        THEN Reply(st, build_exception(request, request.function_code,
                                       w.result))
        ELSE Reply(w.st, build_response(request, request.function_code,
                                        request.data))

\* handle_write_single_register (server.rs:698-717)
handle_write_single_register(request, st) ==
    LET write_req == WriteSingleRegisterRequest_parse(request.data)
        w == write_single_register(st, write_req.address, write_req.value)
    IN  IF write_req.result = "Err"
        THEN Reply(st, build_exception(request, request.function_code,
                                       "IllegalDataValue"))
        ELSE IF w.result # "Ok"
        THEN Reply(st, build_exception(request, request.function_code,
                                       w.result))
        ELSE Reply(w.st, build_response(request, request.function_code,
                                        request.data))

\* handle_write_multiple_coils (server.rs:720-743)
handle_write_multiple_coils(request, st, oc) ==
    LET write_req == WriteMultipleCoilsRequest_parse(request.data)
        valid == validate_coils(write_req)
        w == write_multiple_coils(st, write_req.start_address,
                                  write_req.values, oc)
    IN  IF write_req.result = "Err"
        THEN Reply(st, build_exception(request, request.function_code,
                                       "IllegalDataValue"))
        ELSE IF valid # "Ok"
        THEN Reply(st, build_exception(request, request.function_code, valid))
        ELSE IF w.result = "Panic" THEN Abort(st)
        ELSE IF w.result # "Ok"
        THEN Reply(st, build_exception(request, request.function_code,
                                       w.result))
        ELSE Reply(w.st, build_response(request, request.function_code,
                                        to_response_data(write_req)))

\* handle_write_multiple_registers (server.rs:746-772)
handle_write_multiple_registers(request, st, oc) ==
    LET write_req == WriteMultipleRegistersRequest_parse(request.data)
        valid == validate_multiple_registers(write_req)
        w == write_multiple_registers(st, write_req.start_address,
                                      write_req.values, oc)
    IN  IF write_req.result = "Err"
        THEN Reply(st, build_exception(request, request.function_code,
                                       "IllegalDataValue"))
        ELSE IF valid # "Ok"
        THEN Reply(st, build_exception(request, request.function_code, valid))
        ELSE IF w.result = "Panic" THEN Abort(st)
        ELSE IF w.result # "Ok"
        THEN Reply(st, build_exception(request, request.function_code,
                                       w.result))
        ELSE Reply(w.st, build_response(request, request.function_code,
                                        to_response_data(write_req)))

\* process_request (server.rs:538-561)
process_request(request, st, oc) ==
    LET fc == FunctionCode_from_u8(request.function_code)
    IN  CASE fc = "ReadCoils" -> handle_read_coils(request, st, oc)
          [] fc = "ReadDiscreteInputs" ->
               handle_read_discrete_inputs(request, st, oc)
          [] fc = "ReadHoldingRegisters" ->
               handle_read_holding_registers(request, st, oc)
          [] fc = "ReadInputRegisters" ->
               handle_read_input_registers(request, st, oc)
          [] fc = "WriteSingleCoil" -> handle_write_single_coil(request, st)
          [] fc = "WriteSingleRegister" ->
               handle_write_single_register(request, st)
          [] fc = "WriteMultipleCoils" ->
               handle_write_multiple_coils(request, st, oc)
          [] fc = "WriteMultipleRegisters" ->
               handle_write_multiple_registers(request, st, oc)
          [] OTHER ->
               Reply(st, build_exception(request, request.function_code,
                                         "IllegalFunction"))


(***************************************************************************)
(* One connection: handle_connection (server.rs:298-425).  The handler is  *)
(* one task; it yields at socket.read (hpc = "select") and at              *)
(* socket.write_all (hpc = "write").                                       *)
(***************************************************************************)
\* frames the client sends on one connection
MaxFrames == 2

\* the client's encoding of a request
Encode(txn, proto, unit, fc, body) ==
    to_be_bytes(txn) \o to_be_bytes(proto) \o to_be_bytes(2 + Len(body))
      \o << unit, fc >> \o body

\* function code and body of the requests of the model
ReadHolding0 == << 3, << 0, 0, 0, 1 >> >>
ReadHoldingTop == << 3, << 255, 255, 0, 1 >> >>
WriteRegister0 == << 6, << 0, 0, 171, 205 >> >>
WriteCoil0 == << 5, << 0, 0, 255, 0, 9 >> >>

\* the frames of the model, as protocol id, unit id, function code and body:
\* the configured unit id is 1
FrameChoices ==
    { << 0, 1, pdu[1], pdu[2] >> :
        pdu \in { ReadHolding0, ReadHoldingTop, WriteRegister0, WriteCoil0,
                  << 6, << 0, 2, 0, 1 >> >>,       \* register 2 is not defined
                  << 5, << 0, 0, 18, 52 >> >>,     \* not a coil value
                  << 16, << 0, 0, 0, 2, 4, 0, 1, 0, 2 >> >>,
                  << 15, << 0, 0, 0, 1, 1, 0 >> >>,
                  << 43, << >> >> } }              \* no such function
    \cup { << 0, 0, pdu[1], pdu[2] >> :
             pdu \in {ReadHoldingTop, WriteRegister0, WriteCoil0} }
    \cup { << 0, 7, WriteRegister0[1], WriteRegister0[2] >>,
           << 1, 1, WriteRegister0[1], WriteRegister0[2] >> }

\* the transaction id of the i-th frame of a connection
TxnIds == << 513, 2, 65535 >>

RequestLists ==
    UNION { { [i \in 1 .. n |->
                 Encode(TxnIds[i], f[i][1], f[i][2], f[i][3], f[i][4])] :
              f \in [1 .. n -> FrameChoices] } :
            n \in 0 .. MaxFrames }

RECURSIVE Concat(_)
Concat(ss) == IF ss = << >> THEN << >> ELSE Head(ss) \o Concat(Tail(ss))

\* telemetry when the handler starts: start() has logged with id 1
\* (server.rs:188) and copied the counter (server.rs:197); with an app
\* handle the accept loop has logged the connection (server.rs:214-222)
ConnLog(handle) ==
    /\ app_handle = handle
    /\ log_id_counter = [g \in 0 .. 1 |-> IF g = 1 /\ handle THEN 3 ELSE 2]
    /\ log = IF handle
             THEN << [id |-> 1, entry_type |-> "Info", client_addr |-> "SERVER"],
                     [id |-> 2, entry_type |-> "Info", client_addr |-> "client"] >>
             ELSE << >>

\* the variables the server was started with (commands.rs:55-83)
ConnCatalog ==
    << Variable("v1", "HoldingRegister", 0, << "Uint32", Number(65538) >>),
       Variable("v2", "Coil", 0, << "Bool", Bool(TRUE) >>) >>

InitConn ==
    /\ SetStoreTo(load_variables(NewStore, ConnCatalog, FALSE).st)
    /\ overflow_checks \in BOOLEAN
    /\ CallIdle
    /\ ServerIdle
    /\ ConnLog(FALSE)
    /\ unit_id = 1
    /\ requests \in RequestLists
    /\ wire = Concat(requests)
    /\ frame_buffer = << >>
    /\ hpc = "select"
    /\ response = << >>
    /\ sent = << >>
    /\ ndrained = 0
    /\ ConcIdle

Min(a, b) == IF a < b THEN a ELSE b

ConnStep ==
    UNCHANGED << overflow_checks, callVars, unit_id, requests, concVars,
                 serverVars >>

\* LogEntry::new (types.rs:242-281): the fields the properties read
LogEntry_new(id, entry_type, client_addr) ==
    [id |-> id, entry_type |-> entry_type, client_addr |-> client_addr]

\* emit_log_entry (server.rs:428-432): emitted only with an app handle
emit_log_entry(lg, handle, entry) == IF handle THEN Append(lg, entry) ELSE lg

\* the counter the handler of the connection draws ids from: the Arc of
\* the accept loop that accepted it (server.rs:228)
LogCounterOf == 1
log_counter == log_id_counter[LogCounterOf]

\* log_counter.fetch_add(n, SeqCst)
FetchAdd(n) ==
    log_id_counter' = [log_id_counter EXCEPT ![LogCounterOf] = @ + n]

\* the handler has emitted nothing in the step
Silent == UNCHANGED logVars

\* is_error (server.rs:369)
is_error(resp) == Len(resp) > 7 /\ resp[8] >= 128

\* socket.read returns Ok(n), n > 0 (server.rs:326-327)
Recv ==
    /\ hpc = "select"
    /\ \E n \in 1 .. Min(Len(wire), READ_BUFFER_SIZE) :
         /\ frame_buffer' = frame_buffer \o SubSeq(wire, 1, n)
         /\ wire' = SubSeq(wire, n + 1, Len(wire))
    /\ hpc' = "frames"
    /\ UNCHANGED << storeVars, response, sent, ndrained >>
    /\ Silent
    /\ ConnStep

\* socket.read returns Ok(0): the client has sent everything and closed
\* (server.rs:316-325)
Eof ==
    /\ hpc = "select"
    /\ wire = << >>
    /\ hpc' = "done"
    /\ log' = emit_log_entry(log, app_handle,
                              LogEntry_new(log_counter, "Info", "client"))
    /\ FetchAdd(1)
    /\ UNCHANGED << storeVars, wire, frame_buffer, response, sent, ndrained,
                    app_handle >>
    /\ ConnStep

\* a complete frame is at the head of the buffer (server.rs:330-331)
FrameReady ==
    /\ hpc = "frames"
    /\ expected_frame_length(frame_buffer) # -1
    /\ Len(frame_buffer) >= expected_frame_length(frame_buffer)

\* frame_buffer.drain(..frame_len) (server.rs:333)
frame_data == SubSeq(frame_buffer, 1, expected_frame_length(frame_buffer))
Drained ==
    SubSeq(frame_buffer, expected_frame_length(frame_buffer) + 1,
           Len(frame_buffer))

Filtered_ConfiguredOnly(request, unit) == request.header.unit_id # unit

\* the unit-id filter (server.rs:339)
Filtered(request, unit) ==
    request.header.unit_id # unit /\ request.header.unit_id # 0

\* the loop ends: no header yet, or the frame is incomplete; then the
\* overflow guard (server.rs:330, 400-410)
NeedMore ==
    /\ hpc = "frames"
    /\ ~ FrameReady
    /\ frame_buffer' = IF Len(frame_buffer) > MAX_FRAME_SIZE * 2 THEN << >>
                       ELSE frame_buffer
    /\ hpc' = "select"
    /\ UNCHANGED << storeVars, wire, response, sent, ndrained >>
    /\ Silent
    /\ ConnStep

\* the frame does not parse: the buffer is cleared (server.rs:388-398)
ParseError ==
    /\ FrameReady
    /\ ModbusRequest_parse(frame_data).result = "Err"
    /\ frame_buffer' = << >>
    /\ ndrained' = ndrained + 1
    /\ log' = emit_log_entry(log, app_handle,
                              LogEntry_new(log_counter, "Error", "client"))
    /\ FetchAdd(1)
    /\ UNCHANGED << storeVars, wire, hpc, response, sent, app_handle >>
    /\ ConnStep

\* the frame is for another unit: `continue` (server.rs:339-346)
DropFrame ==
    /\ FrameReady
    /\ ModbusRequest_parse(frame_data).result = "Ok"
    /\ Filtered(ModbusRequest_parse(frame_data), unit_id)
    /\ frame_buffer' = Drained
    /\ ndrained' = ndrained + 1
    /\ UNCHANGED << storeVars, wire, hpc, response, sent >>
    /\ Silent
    /\ ConnStep

\* the entries of a dispatched frame (server.rs:352-381): the Request
\* entry before process_request, the Response or Error entry after it; a
\* panic of process_request ends the task between the two
DispatchEntries(r) ==
    << LogEntry_new(log_counter, "Request", "client") >>
      \o (IF r.result = "Panic" THEN << >>
          ELSE << LogEntry_new(log_counter + 1,
                               IF is_error(r.response) THEN "Error"
                               ELSE "Response", "client") >>)

\* the frame is dispatched (server.rs:348-381); a panic ends the task
Dispatch ==
    /\ FrameReady
    /\ ModbusRequest_parse(frame_data).result = "Ok"
    /\ ~ Filtered(ModbusRequest_parse(frame_data), unit_id)
    /\ LET r == process_request(ModbusRequest_parse(frame_data), Store,
                                overflow_checks)
       IN  /\ SetStore(r.st)
           /\ response' = r.response
           /\ hpc' = IF r.result = "Panic" THEN "panicked" ELSE "write"
           /\ log' = IF app_handle THEN log \o DispatchEntries(r) ELSE log
           /\ FetchAdd(Len(DispatchEntries(r)))
    /\ frame_buffer' = Drained
    /\ ndrained' = ndrained + 1
    /\ UNCHANGED << wire, sent, app_handle >>
    /\ ConnStep

\* socket.write_all(&response) returns Ok (server.rs:383)
WriteAll ==
    /\ hpc = "write"
    /\ sent' = Append(sent, response)
    /\ response' = << >>
    /\ hpc' = "frames"
    /\ UNCHANGED << storeVars, wire, frame_buffer, ndrained >>
    /\ Silent
    /\ ConnStep

\* socket.write_all fails, the handler returns (server.rs:383-386)
WriteError ==
    /\ hpc = "write"
    /\ hpc' = "write_error"
    /\ response' = << >>
    /\ UNCHANGED << storeVars, wire, frame_buffer, sent, ndrained >>
    /\ Silent
    /\ ConnStep

NextConn ==
    \/ Recv
    \/ Eof
    \/ NeedMore
    \/ ParseError
    \/ DropFrame
    \/ Dispatch
    \/ WriteAll
    \/ WriteError

SpecConn == InitConn /\ [][NextConn]_vars


(***************************************************************************)
(* Properties of the connection handler                                    *)
(***************************************************************************)
TxnOf(frame) == from_be_bytes(frame[1], frame[2])
UnitOf(frame) == frame[7]
FunctionOf(frame) == frame[8]
BodyOf(frame) == SubSeq(frame, 9, Len(frame))

\* proto_id 0 and a unit id the server answers
WellFormed(frame) ==
    /\ ModbusRequest_parse(frame).result = "Ok"
    /\ UnitOf(frame) \in {unit_id, 0}

AllWellFormed == \A i \in 1 .. Len(requests) : WellFormed(requests[i])

\* the store after the step
StoreAfter == [coils |-> coils', discrete_inputs |-> discrete_inputs',
               input_registers |-> input_registers',
               holding_registers |-> holding_registers',
               variables |-> variables',
               defined_coils |-> defined_coils',
               defined_discrete_inputs |-> defined_discrete_inputs',
               defined_holding_registers |-> defined_holding_registers',
               defined_input_registers |-> defined_input_registers']

\* the step drains a frame from the buffer
DrainStep == FrameReady /\ ndrained' = ndrained + 1

\* everything the client sent was read, and the handler waits for more,
\* has returned at end of stream, or was aborted
Settled == wire = << >> /\ hpc \in {"select", "done", "panicked"}

C4_Responses ==
    AllWellFormed =>
      /\ Len(sent) <= Len(requests)
      /\ \A i \in 1 .. Len(sent) : TxnOf(sent[i]) = TxnOf(requests[i])
      /\ Settled => Len(sent) = Len(requests)

C4_Order == (AllWellFormed /\ DrainStep) => Len(sent) = ndrained

\* C4: k well-formed frames, in any slicing into chunks, get exactly k
\* responses, in request order, the i-th with the transaction id of the
\* i-th request, and the response to a frame is written before the next
\* frame is parsed or applied.
C4_Reassembly == [] C4_Responses /\ [][C4_Order]_vars

\* a frame for another unit id leaves store, responses and the rest of the
\* buffer alone and the loop goes on with the bytes behind it
C5_Drop ==
    (DrainStep /\ ModbusRequest_parse(frame_data).result = "Ok"
       /\ UnitOf(frame_data) \notin {unit_id, 0})
    => /\ UNCHANGED << storeVars, sent, response >>
       /\ frame_buffer' = Drained
       /\ hpc' = "frames"

\* the response with the unit id byte set to unit
WithUnit(bytes, unit) ==
    [i \in DOMAIN bytes |-> IF i = 7 THEN unit ELSE bytes[i]]

\* a frame for unit 0 has the effect of the same frame for the configured
\* unit id, the response echoing unit 0
C5_UnitZero ==
    (DrainStep /\ ModbusRequest_parse(frame_data).result = "Ok"
       /\ UnitOf(frame_data) = 0)
    => LET same == process_request(
                     ModbusRequest_parse(WithUnit(frame_data, unit_id)),
                     Store, overflow_checks)
       IN  /\ StoreAfter = same.st
           /\ response' = WithUnit(same.response, 0)
           /\ hpc' = IF same.result = "Panic" THEN "panicked" ELSE "write"
           /\ sent' = sent

\* once the client's frames, all of protocol id 0, are processed to the end
\* of the stream, each frame for the configured unit id or for 0 has its
\* response and no other frame has one
C5_Answered ==
    (hpc = "done"
       /\ \A i \in 1 .. Len(requests) :
            ModbusRequest_parse(requests[i]).result = "Ok")
    => LET answered == {i \in 1 .. Len(requests) : WellFormed(requests[i])}
       IN  /\ Len(sent) = Cardinality(answered)
           /\ {TxnOf(sent[j]) : j \in 1 .. Len(sent)}
                = {TxnOf(requests[i]) : i \in answered}

\* C5: a frame whose unit id is neither the configured one nor 0 gets no
\* response and changes nothing, the frames behind it are still processed,
\* and a frame for unit 0 is handled like one for the configured unit id.
C5_UnitFilter ==
    [] C5_Answered /\ [][C5_Drop /\ C5_UnitZero]_vars

C5_Witness ==
    /\ hpc = "done"
    /\ Len(requests) = 2
    /\ UnitOf(requests[1]) = 7
    /\ UnitOf(requests[2]) = 0
    /\ Len(sent) = 1
    /\ FunctionOf(sent[1]) = 6

\* the 0x05 / 0x06 request at the head of the buffer is dispatched and its
\* write to the store succeeds
WriteSingleSucceeds ==
    LET request == ModbusRequest_parse(frame_data)
        coil == WriteSingleCoilRequest_parse(request.data)
        reg == WriteSingleRegisterRequest_parse(request.data)
    IN  /\ request.result = "Ok"
        /\ ~ Filtered(request, unit_id)
        /\ \/ /\ request.function_code = 5
              /\ coil.result = "Ok"
              /\ write_single_coil(Store, coil.address, coil.value).result
                   = "Ok"
           \/ /\ request.function_code = 6
              /\ reg.result = "Ok"
              /\ write_single_register(Store, reg.address, reg.value).result
                   = "Ok"

C6_Echo ==
    (DrainStep /\ WriteSingleSucceeds)
    => /\ hpc' = "write"
       /\ TxnOf(response') = TxnOf(frame_data)
       /\ UnitOf(response') = UnitOf(frame_data)
       /\ FunctionOf(response') = FunctionOf(frame_data)
       /\ BodyOf(response') = BodyOf(frame_data)

\* C6: the response to a Write Single Coil or Write Single Register request
\* that succeeds has the request's transaction id and unit id and, as its
\* body, the bytes of the request body.
C6_ProtocolEcho == [][C6_Echo]_vars

C6_Witness ==
    /\ hpc = "write"
    /\ FunctionOf(response) = 5
    /\ BodyOf(response) = << 0, 0, 255, 0, 9 >>
    /\ TxnOf(response) = 2

(***************************************************************************)
(* Threads calling into one shared store.  Every access to a bank, to the  *)
(* catalog or to a defined-set goes through that field's RwLock            *)
(* (data_store.rs:29-50); a step of a thread is what it does between two   *)
(* lock operations, and a slice is copied or written one word at a time.   *)
(***************************************************************************)

LockNames == {"coils", "discrete_inputs", "input_registers",
              "holding_registers", "variables", "defined_coils",
              "defined_discrete_inputs", "defined_holding_registers",
              "defined_input_registers"}

Unlocked == [writer |-> "none", readers |-> {}]

\* RwLock::read succeeds when no thread holds the lock exclusively
CanRead(l) == locks[l].writer = "none"

CanWrite_Shared(l) == locks[l].writer = "none"

\* RwLock::write succeeds when no thread holds the lock
CanWrite(l) == locks[l].writer = "none" /\ locks[l].readers = {}

LockRead(lk, l, t) == [lk EXCEPT ![l].readers = @ \cup {t}]
LockWrite(lk, l, t) == [lk EXCEPT ![l].writer = t]

\* a guard that is never dropped
Unlock_Keep(lk, l, t) == lk

\* the guard is dropped
Unlock(lk, l, t) ==
    [lk EXCEPT ![l] = [writer |-> IF @.writer = t THEN "none" ELSE @.writer,
                       readers |-> @.readers \ {t}]]

\* the lock of a bank
BankLock(area) ==
    CASE area = "Coil" -> "coils"
      [] area = "DiscreteInput" -> "discrete_inputs"
      [] area = "InputRegister" -> "input_registers"
      [] OTHER -> "holding_registers"

\* a thread that has not been started
NoThread == [op |-> "none", pc |-> "done", start |-> 0, count |-> 0,
             values |-> << >>, id |-> "none", value |-> Null, i |-> 0,
             result |-> "none", data |-> << >>]

\* the catalog the threads share
ConcCatalog ==
    << Variable("v1", "HoldingRegister", 0, << "Uint32", Number(65538) >>),
       Variable("v2", "Coil", 0, << "Bool", Bool(TRUE) >>) >>

\* the calls of the three threads
ReaderCalls ==
    { [NoThread EXCEPT !.op = "read_holding_registers", !.pc = "start",
                       !.start = c[1], !.count = c[2]] :
        c \in {0, 1, U16 - 1} \X (1 .. MaxCount) }

WriterCalls ==
    { [NoThread EXCEPT !.op = "write_multiple_registers", !.pc = "start",
                       !.start = c[1], !.values = c[2],
                       !.count = Len(c[2]) % U16] :
        c \in {0, 1, U16 - 1} \X {<< 7, 8 >>, << 9 >>} }

UpdaterCalls ==
    { [NoThread EXCEPT !.op = "update_variable", !.pc = "start",
                       !.id = c[1], !.value = c[2]] :
        c \in { << "v1", Number(196612) >>, << "v2", Bool(FALSE) >>,
                << "v9", Null >> } }

InitConc ==
    /\ SetStoreTo(load_variables(NewStore, ConcCatalog, FALSE).st)
    /\ overflow_checks \in BOOLEAN
    /\ CallIdle
    /\ ServerIdle
    /\ LogIdle
    /\ ConnIdle
    /\ \E r \in ReaderCalls, w \in WriterCalls, u \in UpdaterCalls :
         threads = [t \in {"reader", "writer", "updater"} |->
                      CASE t = "reader" -> r
                        [] t = "writer" -> w
                        [] OTHER -> u]
    /\ locks = [l \in LockNames |-> Unlocked]
    /\ hr_versions = {holding_registers}

\* what a step of a thread leaves alone
ConcStep == UNCHANGED << overflow_checks, callVars, connVars, serverVars, logVars >>

\* the banks and the defined-sets stay as they are
BanksUnchanged ==
    UNCHANGED << coils, discrete_inputs, input_registers, holding_registers >>
DefinedUnchanged ==
    UNCHANGED << defined_coils, defined_discrete_inputs,
                 defined_holding_registers, defined_input_registers >>

\* `let defined = self.defined_holding_registers.read();`
\* (data_store.rs:384, 432)
LockDefined(t) ==
    /\ threads[t].pc = "start"
    /\ threads[t].op \in {"read_holding_registers", "write_single_register",
                         "write_multiple_registers"}
    /\ CanRead("defined_holding_registers")
    /\ locks' = LockRead(locks, "defined_holding_registers", t)
    /\ threads' = [threads EXCEPT ![t].pc = "check"]
    /\ UNCHANGED << storeVars, hr_versions >>
    /\ ConcStep

\* `self.check_addresses_defined(&defined, start, count)?;` and the end of
\* the block, or of the thread when the sum overflows (data_store.rs:385-386,
\* 433-434); `if !defined.contains(&address)` in write_single_register
\* (data_store.rs:405-407)
CheckDefined(t) ==
    /\ threads[t].pc = "check"
    /\ LET chk == IF threads[t].op = "write_single_register"
                  THEN IF threads[t].start \in defined_holding_registers
                       THEN "Ok" ELSE "IllegalDataAddress"
                  ELSE check_addresses_defined(
                          defined_holding_registers, threads[t].start,
                          threads[t].count, overflow_checks)
       IN  threads' =
             [threads EXCEPT
                ![t].pc = CASE chk = "Panic" -> "panicked"
                            [] chk = "Ok" -> "lock_bank"
                            [] OTHER -> "done",
                ![t].result = IF chk = "Ok" THEN @ ELSE chk]
    /\ locks' = Unlock(locks, "defined_holding_registers", t)
    /\ UNCHANGED << storeVars, hr_versions >>
    /\ ConcStep

\* ---- read_holding_registers (data_store.rs:377-397)

\* `let regs = self.holding_registers.read();`
ReadLock ==
    /\ threads["reader"].pc = "lock_bank"
    /\ CanRead("holding_registers")
    /\ locks' = LockRead(locks, "holding_registers", "reader")
    /\ threads' = [threads EXCEPT !["reader"].pc = "bounds"]
    /\ UNCHANGED << storeVars, hr_versions >>
    /\ ConcStep

\* `if end_idx > regs.len()`
ReadBounds ==
    /\ threads["reader"].pc = "bounds"
    /\ IF threads["reader"].start + threads["reader"].count
            > DEFAULT_HOLDING_REGISTERS_SIZE
       THEN /\ threads' = [threads EXCEPT
                             !["reader"].pc = "done",
                             !["reader"].result = "IllegalDataAddress"]
            /\ locks' = Unlock(locks, "holding_registers", "reader")
       ELSE /\ threads' = [threads EXCEPT !["reader"].pc = "words"]
            /\ UNCHANGED locks
    /\ UNCHANGED << storeVars, hr_versions >>
    /\ ConcStep

\* `regs[start_idx..end_idx].to_vec()`, one word
ReadWord ==
    /\ threads["reader"].pc = "words"
    /\ threads["reader"].i < threads["reader"].count
    /\ threads' =
         [threads EXCEPT
            !["reader"].data =
               Append(@, holding_registers[threads["reader"].start
                                           + threads["reader"].i]),
            !["reader"].i = @ + 1]
    /\ UNCHANGED << storeVars, locks, hr_versions >>
    /\ ConcStep

\* `Ok(..)`: the guard is dropped on return
ReadReturn ==
    /\ threads["reader"].pc = "words"
    /\ threads["reader"].i = threads["reader"].count
    /\ threads' = [threads EXCEPT !["reader"].pc = "done",
                                  !["reader"].result = "Ok"]
    /\ locks' = Unlock(locks, "holding_registers", "reader")
    /\ UNCHANGED << storeVars, hr_versions >>
    /\ ConcStep

\* ---- write_multiple_registers (data_store.rs:425-455)

\* `let mut regs = self.holding_registers.write();`
WriteLock ==
    /\ threads["writer"].pc = "lock_bank"
    /\ CanWrite("holding_registers")
    /\ locks' = LockWrite(locks, "holding_registers", "writer")
    /\ threads' = [threads EXCEPT !["writer"].pc = "bounds"]
    /\ UNCHANGED << storeVars, hr_versions >>
    /\ ConcStep

\* `if end_addr > regs.len()`
WriteBounds ==
    /\ threads["writer"].pc = "bounds"
    /\ IF threads["writer"].start + Len(threads["writer"].values)
            > DEFAULT_HOLDING_REGISTERS_SIZE
       THEN /\ threads' = [threads EXCEPT
                             !["writer"].pc = "done",
                             !["writer"].result = "IllegalDataAddress"]
            /\ locks' = Unlock(locks, "holding_registers", "writer")
       ELSE /\ threads' = [threads EXCEPT !["writer"].pc = "words"]
            /\ UNCHANGED locks
    /\ UNCHANGED << storeVars, hr_versions >>
    /\ ConcStep

\* `regs[start_addr + i] = value;`
WriteWord ==
    /\ threads["writer"].pc = "words"
    /\ threads["writer"].i < Len(threads["writer"].values)
    /\ holding_registers' =
         [holding_registers EXCEPT
            ![threads["writer"].start + threads["writer"].i] =
               threads["writer"].values[threads["writer"].i + 1]]
    /\ threads' = [threads EXCEPT !["writer"].i = @ + 1]
    /\ UNCHANGED << coils, discrete_inputs, input_registers, variables,
                    locks, hr_versions >>
    /\ DefinedUnchanged
    /\ ConcStep

\* `drop(regs);`
WriteDrop ==
    /\ threads["writer"].pc = "words"
    /\ threads["writer"].i = Len(threads["writer"].values)
    /\ locks' = Unlock(locks, "holding_registers", "writer")
    /\ hr_versions' = hr_versions \cup {holding_registers}
    /\ threads' = [threads EXCEPT !["writer"].pc = "sync", !["writer"].i = 0]
    /\ UNCHANGED storeVars
    /\ ConcStep

\* sync_variable_from_register (data_store.rs:480-534):
\* `self.holding_registers.read()`
SyncLockBank ==
    /\ threads["writer"].pc = "sync"
    /\ threads["writer"].i < Len(threads["writer"].values)
    /\ CanRead("holding_registers")
    /\ locks' = LockRead(locks, "holding_registers", "writer")
    /\ threads' = [threads EXCEPT !["writer"].pc = "sync_vars"]
    /\ UNCHANGED << storeVars, hr_versions >>
    /\ ConcStep

\* `let mut vars = self.variables.write();`
SyncLockVars ==
    /\ threads["writer"].pc = "sync_vars"
    /\ CanWrite("variables")
    /\ locks' = LockWrite(locks, "variables", "writer")
    /\ threads' = [threads EXCEPT !["writer"].pc = "sync_apply"]
    /\ UNCHANGED << storeVars, hr_versions >>
    /\ ConcStep

\* the loop over the catalog; both guards are dropped on return
SyncApply ==
    /\ threads["writer"].pc = "sync_apply"
    /\ variables' =
         sync_variable_from_register(
            Store, "HoldingRegister",
            threads["writer"].start + threads["writer"].i).variables
    /\ locks' = Unlock(Unlock(locks, "variables", "writer"),
                       "holding_registers", "writer")
    /\ threads' = [threads EXCEPT !["writer"].pc = "sync", !["writer"].i = @ + 1]
    /\ BanksUnchanged
    /\ DefinedUnchanged
    /\ UNCHANGED hr_versions
    /\ ConcStep

\* `Ok(())`
WriteReturn ==
    /\ threads["writer"].pc = "sync"
    /\ threads["writer"].i = Len(threads["writer"].values)
    /\ threads' = [threads EXCEPT !["writer"].pc = "done",
                                  !["writer"].result = "Ok"]
    /\ UNCHANGED << storeVars, locks, hr_versions >>
    /\ ConcStep

\* ---- update_variable (data_store.rs:247-258)

\* `let mut vars = self.variables.write();`
UpdateLock ==
    /\ threads["updater"].pc = "start"
    /\ CanWrite("variables")
    /\ locks' = LockWrite(locks, "variables", "updater")
    /\ threads' = [threads EXCEPT !["updater"].pc = "get"]
    /\ UNCHANGED << storeVars, hr_versions >>
    /\ ConcStep

\* `vars.get_mut(id)` is None: false
UpdateMissing ==
    /\ threads["updater"].pc = "get"
    /\ threads["updater"].id \notin DOMAIN variables
    /\ locks' = Unlock(locks, "variables", "updater")
    /\ threads' = [threads EXCEPT !["updater"].pc = "done",
                                  !["updater"].result = FALSE]
    /\ UNCHANGED << storeVars, hr_versions >>
    /\ ConcStep

\* update_variable without `drop(vars)`: the catalog stays locked while the
\* bank is written
UpdateSet_NoDrop ==
    /\ threads["updater"].pc = "get"
    /\ threads["updater"].id \in DOMAIN variables
    /\ variables' = [variables EXCEPT ![threads["updater"].id].value =
                                         threads["updater"].value]
    /\ threads' =
         [threads EXCEPT
            !["updater"].pc = "write_value",
            !["updater"].data = [variables[threads["updater"].id]
                                   EXCEPT !.value = threads["updater"].value]]
    /\ BanksUnchanged
    /\ DefinedUnchanged
    /\ UNCHANGED << locks, hr_versions >>
    /\ ConcStep

\* `var.value = value.clone(); let var_clone = var.clone(); drop(vars);`
UpdateSet ==
    /\ threads["updater"].pc = "get"
    /\ threads["updater"].id \in DOMAIN variables
    /\ variables' = [variables EXCEPT ![threads["updater"].id].value =
                                         threads["updater"].value]
    /\ locks' = Unlock(locks, "variables", "updater")
    /\ threads' =
         [threads EXCEPT
            !["updater"].pc = "write_value",
            !["updater"].data = [variables[threads["updater"].id]
                                   EXCEPT !.value = threads["updater"].value]]
    /\ BanksUnchanged
    /\ DefinedUnchanged
    /\ UNCHANGED hr_versions
    /\ ConcStep

\* var_clone: the copy of the variable the thread took under the lock
var_clone == threads["updater"].data

\* write_variable_value on a coil or a discrete input
\* (data_store.rs:165-178): the guard is taken and dropped
UpdateBit ==
    /\ threads["updater"].pc = "write_value"
    /\ var_clone.area \in BitAreas
    /\ CanWrite(BankLock(var_clone.area))
    /\ coils' = write_variable_value(Store, var_clone).coils
    /\ discrete_inputs' = write_variable_value(Store, var_clone).discrete_inputs
    /\ threads' = [threads EXCEPT !["updater"].pc = "done",
                                  !["updater"].result = TRUE]
    /\ UNCHANGED << input_registers, holding_registers, variables, locks,
                    hr_versions >>
    /\ DefinedUnchanged
    /\ ConcStep

\* write_register_value: `let mut regs = registers.write();`
\* (data_store.rs:206)
UpdateLockBank ==
    /\ threads["updater"].pc = "write_value"
    /\ var_clone.area \in RegisterAreas
    /\ CanWrite(BankLock(var_clone.area))
    /\ locks' = LockWrite(locks, BankLock(var_clone.area), "updater")
    /\ threads' = [threads EXCEPT !["updater"].pc = "words", !["updater"].i = 0]
    /\ UNCHANGED << storeVars, hr_versions >>
    /\ ConcStep

\* the i-th of the assignments `regs[addr] = ..; regs[addr + 1] = ..;`
\* (data_store.rs:210-241)
PutWord(regs, size) ==
    LET target == write_register_value(regs, var_clone.address,
                                       var_clone.data_type, var_clone.value,
                                       size)
        a == var_clone.address + threads["updater"].i
    IN  IF a \in DOMAIN regs THEN [regs EXCEPT ![a] = target[a]] ELSE regs

UpdateWord ==
    /\ threads["updater"].pc = "words"
    /\ threads["updater"].i < register_count(var_clone.data_type)
    /\ IF var_clone.area = "HoldingRegister"
       THEN /\ holding_registers' =
                 PutWord(holding_registers, DEFAULT_HOLDING_REGISTERS_SIZE)
            /\ UNCHANGED input_registers
       ELSE /\ input_registers' =
                 PutWord(input_registers, DEFAULT_INPUT_REGISTERS_SIZE)
            /\ UNCHANGED holding_registers
    /\ threads' = [threads EXCEPT !["updater"].i = @ + 1]
    /\ UNCHANGED << coils, discrete_inputs, variables, locks, hr_versions >>
    /\ DefinedUnchanged
    /\ ConcStep

\* the guard is dropped at the end of write_register_value: true
UpdateReturn ==
    /\ threads["updater"].pc = "words"
    /\ threads["updater"].i = register_count(var_clone.data_type)
    /\ locks' = Unlock(locks, BankLock(var_clone.area), "updater")
    /\ hr_versions' = hr_versions \cup {holding_registers}
    /\ threads' = [threads EXCEPT !["updater"].pc = "done",
                                  !["updater"].result = TRUE]
    /\ UNCHANGED storeVars
    /\ ConcStep

NextConc ==
    \/ \E t \in {"reader", "writer"} : LockDefined(t)
    \/ \E t \in {"reader", "writer"} : CheckDefined(t)
    \/ ReadLock
    \/ ReadBounds
    \/ ReadWord
    \/ ReadReturn
    \/ WriteLock
    \/ WriteBounds
    \/ WriteWord
    \/ WriteDrop
    \/ SyncLockBank
    \/ SyncLockVars
    \/ SyncApply
    \/ WriteReturn
    \/ UpdateLock
    \/ UpdateMissing
    \/ UpdateSet
    \/ UpdateBit
    \/ UpdateLockBank
    \/ UpdateWord
    \/ UpdateReturn

SpecConc == InitConc /\ [][NextConc]_vars

\* the reader has returned a slice
ReaderReturned ==
    threads["reader"].pc = "done" /\ threads["reader"].result = "Ok"

\* C3: a read_holding_registers(s, n) that runs concurrently with
\* write_multiple_registers or with update_variable on a 32-bit variable
\* returns the cells [s, s+n) as they were before a write or as they were
\* after it, never a mix of the words of one write: the slice it returns
\* is the slice of the bank at a moment no writer was inside it.
C3_NoTornRead ==
    ReaderReturned =>
      \E v \in hr_versions :
         threads["reader"].data =
           Slice(v, threads["reader"].start, threads["reader"].count)

\* the reader returned both words of a write whose caller is still at work
C3_Witness ==
    /\ ReaderReturned
    /\ threads["reader"].count = 2
    /\ threads["writer"].pc = "sync_vars"
    /\ threads["reader"].data = threads["writer"].values

(***************************************************************************)
(* The dispatcher on one request: process_request (server.rs:538-561)      *)
(* applied to a parsed frame and a loaded store.                           *)
(***************************************************************************)
\* function codes: the eight functions and others, with and without the
\* high bit
DispatchCodes == {0, 1, 2, 3, 4, 5, 6, 7, 15, 16, 43, 128, 131, 255}

\* starts: a defined one, an undefined one, the last address
DispatchStarts == {0, 2, U16 - 1}

\* quantities and coil values around the limits of the functions
DispatchWords ==
    {0, 1, 2, 125, 126, 2000, 2001, 255, 65280, 65281, U16 - 1}

\* n bytes of value b
Bytes(n, b) == [i \in 1 .. n |-> b]

\* bodies of multiple writes: quantity, byte count, bytes that follow
MultipleShapes ==
    { << 0, 0, 0 >>, << 1, 1, 1 >>, << 1, 2, 2 >>, << 1, 1, 0 >>,
      << 2, 1, 1 >>, << 2, 4, 4 >>, << 2, 4, 3 >>, << 2, 3, 3 >>,
      << 123, 246, 246 >>, << 124, 248, 248 >>, << 127, 254, 254 >>,
      << 128, 0, 0 >>, << 1968, 246, 246 >>, << 1969, 247, 247 >>,
      << 2040, 255, 255 >>, << U16 - 1, 255, 255 >> }

DispatchBodies ==
    { << >>, << 0, 0, 0 >> }
    \cup { to_be_bytes(a) \o to_be_bytes(w) :
             a \in DispatchStarts, w \in DispatchWords }
    \cup { to_be_bytes(a) \o to_be_bytes(m[1]) \o << m[2] >> \o Bytes(m[3], 1) :
             a \in DispatchStarts, m \in MultipleShapes }

DispatchFrames ==
    { Encode(t, 0, u, fc, b) :
        t \in {513}, u \in {0, 1}, fc \in DispatchCodes, b \in DispatchBodies }

\* the catalog of the store the requests are applied to
DispatchCatalog ==
    << Variable("v1", "HoldingRegister", 0, << "Uint32", Number(65538) >>),
       Variable("v2", "Coil", 0, << "Bool", Bool(FALSE) >>),
       Variable("v3", "Coil", U16 - 1, << "Bool", Bool(TRUE) >>) >>

InitDispatch ==
    /\ SetStoreTo(load_variables(NewStore, DispatchCatalog, FALSE).st)
    /\ overflow_checks \in BOOLEAN
    /\ CallIdle
    /\ ServerIdle
    /\ LogIdle
    /\ ConcIdle
    /\ unit_id = 1
    /\ \E f \in DispatchFrames : requests = << f >>
    /\ wire = << >>
    /\ frame_buffer = << >>
    /\ hpc = "dispatch"
    /\ response = << >>
    /\ sent = << >>
    /\ ndrained = 0

\* `let response = process_request(&request, &data_store);` (server.rs:364)
ProcessRequest ==
    /\ hpc = "dispatch"
    /\ LET r == process_request(ModbusRequest_parse(requests[1]), Store,
                                overflow_checks)
       IN  /\ SetStore(r.st)
           /\ response' = r.response
           /\ hpc' = IF r.result = "Panic" THEN "panicked" ELSE "replied"
    /\ UNCHANGED << wire, frame_buffer, sent, ndrained >>
    /\ Silent
    /\ ConnStep

NextDispatch == ProcessRequest

SpecDispatch == InitDispatch /\ [][NextDispatch]_vars

(***************************************************************************)
(* Properties of the dispatcher                                            *)
(***************************************************************************)
\* the request that is dispatched
DispatchedRequest == ModbusRequest_parse(requests[1])

\* the step applies process_request
Dispatched == hpc = "dispatch" /\ hpc' # "dispatch"

\* an exception frame for a request: transaction id, protocol id 0, length
\* 3, unit id, function code with the high bit set, exception code
ExceptionFrame(request, code) ==
    << request.header.transaction_id \div 256,
       request.header.transaction_id % 256, 0, 0, 0, 3,
       request.header.unit_id,
       IF request.function_code >= 128 THEN request.function_code
       ELSE request.function_code + 128,
       code >>

CodeOf(e) ==
    CASE e = "IllegalFunction" -> 1
      [] e = "IllegalDataAddress" -> 2
      [] e = "IllegalDataValue" -> 3
      [] OTHER -> 4

\* the two words at the head of a request body
Word1(data) == data[1] * 256 + data[2]
Word2(data) == data[3] * 256 + data[4]

\* the request does not pass the checks made before the store is called:
\* body too short, quantity outside the range of the function, byte count
\* that does not match the quantity
FailsValidation(request) ==
    LET fc == request.function_code
        data == request.data
    IN  CASE fc \in {1, 2} -> Len(data) < 4 \/ Word2(data) \notin 1 .. 2000
          [] fc \in {3, 4} -> Len(data) < 4 \/ Word2(data) \notin 1 .. 125
          [] fc \in {5, 6} -> Len(data) < 4
          [] fc = 15 ->
               \/ Len(data) < 5
               \/ Word2(data) \notin 1 .. 1968
               \/ data[5] # (Word2(data) + 7) \div 8
               \/ Len(data) < 5 + data[5]
          [] fc = 16 ->
               \/ Len(data) < 5
               \/ Word2(data) \notin 1 .. 123
               \/ data[5] # Word2(data) * 2
               \/ Len(data) < 5 + data[5]
          [] OTHER -> FALSE

\* what the store returns to the handler of the request; "none" when the
\* handler does not call the store
StoreReturns(request, st, oc) ==
    LET fc == request.function_code
        data == request.data
    IN  IF FailsValidation(request) THEN "none"
        ELSE CASE fc = 1 -> read_coils(st, Word1(data), Word2(data), oc).result
               [] fc = 2 ->
                    read_discrete_inputs(st, Word1(data), Word2(data), oc).result
               [] fc = 3 ->
                    read_holding_registers(st, Word1(data), Word2(data), oc).result
               [] fc = 4 ->
                    read_input_registers(st, Word1(data), Word2(data), oc).result
               [] fc = 5 ->
                    IF Word2(data) \notin {0, 65280} THEN "none"
                    ELSE write_single_coil(st, Word1(data),
                                           Word2(data) = 65280).result
               [] fc = 6 ->
                    write_single_register(st, Word1(data), Word2(data)).result
               [] fc = 15 ->
                    write_multiple_coils(
                       st, Word1(data),
                       WriteMultipleCoilsRequest_parse(data).values, oc).result
               [] fc = 16 ->
                    write_multiple_registers(
                       st, Word1(data),
                       WriteMultipleRegistersRequest_parse(data).values,
                       oc).result
               [] OTHER -> "none"

C17_Step ==
    Dispatched =>
      LET request == DispatchedRequest
          e == StoreReturns(request, Store, overflow_checks)
      IN  /\ request.function_code \notin {1, 2, 3, 4, 5, 6, 15, 16}
               => /\ hpc' = "replied"
                  /\ response' = ExceptionFrame(request, 1)
          /\ e \notin {"none", "Ok", "Panic"}
               => /\ hpc' = "replied"
                  /\ response' = ExceptionFrame(request, CodeOf(e))

\* C17: a request with a function code other than 0x01..0x06, 0x0F, 0x10
\* is answered with an exception frame: function byte request.function_code
\* OR 0x80, exception code 0x01, MBAP length 3, the request's transaction
\* id and unit id; an error returned by the store is answered with the same
\* frame carrying the store's exception code.
C17_ExceptionResponses == [][C17_Step]_vars

C17_Witness ==
    /\ hpc = "replied"
    /\ DispatchedRequest.function_code = 43
    /\ response = << 2, 1, 0, 0, 0, 3, 1, 171, 1 >>

C18_Step ==
    (Dispatched /\ DispatchedRequest.function_code \in {1, 2, 3, 4, 15, 16}
       /\ FailsValidation(DispatchedRequest))
    => /\ hpc' = "replied"
       /\ response' = ExceptionFrame(DispatchedRequest, 3)
       /\ UNCHANGED storeVars

\* C18: a request whose quantity is outside the range of its function
\* (read bits 1..2000, read registers 1..125, write multiple coils 1..1968,
\* write multiple registers 1..123), whose byte count is not ceil(qty/8)
\* resp. qty*2, or whose body is too short, is answered with exception 0x03
\* whether or not the addressed range is defined, and the store is left as
\* it is.
C18_ValidationFirst == [][C18_Step]_vars

\* 124 registers written from the defined address 0: exception 0x03
C18_Witness ==
    /\ hpc = "replied"
    /\ DispatchedRequest.function_code = 16
    /\ Len(DispatchedRequest.data) >= 5
    /\ Word1(DispatchedRequest.data) = 0
    /\ Word2(DispatchedRequest.data) = 124
    /\ response = << 2, 1, 0, 0, 0, 3, 1, 144, 3 >>

C19_Step ==
    (Dispatched /\ DispatchedRequest.function_code = 5
       /\ Len(DispatchedRequest.data) >= 4)
    => LET request == DispatchedRequest
           address == Word1(request.data)
           value == Word2(request.data)
       IN  /\ value \notin {0, 65280}
                => /\ hpc' = "replied"
                   /\ response' = ExceptionFrame(request, 3)
                   /\ UNCHANGED << coils, variables >>
           /\ (value \in {0, 65280} /\ address \in defined_coils)
                => /\ hpc' = "replied"
                   /\ coils' = [coils EXCEPT ![address] = (value = 65280)]
                   /\ \A id \in DOMAIN variables :
                        (variables[id].area = "Coil"
                           /\ variables[id].address = address)
                        => variables'[id].value = Bool(value = 65280)

\* C19: a Write Single Coil request whose value field is neither 0x0000 nor
\* 0xFF00 is answered with exception 0x03 and changes no coil and no
\* catalog value, at a defined and at an undefined address; 0xFF00 writes
\* true and 0x0000 writes false.
C19_CoilValueCheck == [][C19_Step]_vars

\* value 0x00FF for the defined coil 0: exception 0x03, the coil stays off
C19_Witness ==
    /\ hpc = "replied"
    /\ DispatchedRequest.function_code = 5
    /\ DispatchedRequest.data = << 0, 0, 0, 255 >>
    /\ response = << 2, 1, 0, 0, 0, 3, 1, 133, 3 >>
    /\ coils[0] = FALSE

(***************************************************************************)
(* Writers of one-word variables racing: write_single_coil and             *)
(* write_multiple_coils (data_store.rs:289-349) as threads "coiler" and    *)
(* "coiler2", write_single_register or write_multiple_registers as thread  *)
(* "writer", update_variable as thread "updater".                          *)
(***************************************************************************)
CoilThreads == {"coiler", "coiler2"}

\* `let defined = self.defined_coils.read();` (data_store.rs:292, 316)
CoilLockDefined(t) ==
    /\ threads[t].pc = "start"
    /\ CanRead("defined_coils")
    /\ locks' = LockRead(locks, "defined_coils", t)
    /\ threads' = [threads EXCEPT ![t].pc = "check"]
    /\ UNCHANGED << storeVars, hr_versions >>
    /\ ConcStep

\* `if !defined.contains(&address)` (data_store.rs:293-295) resp.
\* `self.check_addresses_defined(&defined, start, values.len() as u16)?;`
\* (data_store.rs:317)
CoilCheck(t) ==
    /\ threads[t].pc = "check"
    /\ LET chk == IF threads[t].op = "write_single_coil"
                  THEN IF threads[t].start \in defined_coils
                       THEN "Ok" ELSE "IllegalDataAddress"
                  ELSE check_addresses_defined(
                          defined_coils, threads[t].start, threads[t].count,
                          overflow_checks)
       IN  threads' =
             [threads EXCEPT
                ![t].pc = CASE chk = "Panic" -> "panicked"
                            [] chk = "Ok" -> "lock_bank"
                            [] OTHER -> "done",
                ![t].result = IF chk = "Ok" THEN @ ELSE chk]
    /\ locks' = Unlock(locks, "defined_coils", t)
    /\ UNCHANGED << storeVars, hr_versions >>
    /\ ConcStep

\* `let mut coils = self.coils.write();` (data_store.rs:298, 320)
CoilLock(t) ==
    /\ threads[t].pc = "lock_bank"
    /\ CanWrite("coils")
    /\ locks' = LockWrite(locks, "coils", t)
    /\ threads' = [threads EXCEPT ![t].pc = "bounds"]
    /\ UNCHANGED << storeVars, hr_versions >>
    /\ ConcStep

\* `if addr >= coils.len()` resp. `if end_addr > coils.len()`
\* (data_store.rs:301-303, 324-326)
CoilBounds(t) ==
    /\ threads[t].pc = "bounds"
    /\ IF threads[t].start + Len(threads[t].values) > DEFAULT_COILS_SIZE
       THEN /\ threads' = [threads EXCEPT
                             ![t].pc = "done",
                             ![t].result = "IllegalDataAddress"]
            /\ locks' = Unlock(locks, "coils", t)
       ELSE /\ threads' = [threads EXCEPT ![t].pc = "words"]
            /\ UNCHANGED locks
    /\ UNCHANGED << storeVars, hr_versions >>
    /\ ConcStep

\* `coils[addr] = value;` resp. `coils[start_addr + i] = value;`
\* (data_store.rs:305, 328-330)
CoilWord(t) ==
    /\ threads[t].pc = "words"
    /\ threads[t].i < Len(threads[t].values)
    /\ coils' = [coils EXCEPT ![threads[t].start + threads[t].i] =
                                 threads[t].values[threads[t].i + 1]]
    /\ threads' = [threads EXCEPT ![t].i = @ + 1]
    /\ UNCHANGED << discrete_inputs, input_registers, holding_registers,
                    variables, locks, hr_versions >>
    /\ DefinedUnchanged
    /\ ConcStep

\* `drop(coils);` (data_store.rs:306, 333)
CoilDrop(t) ==
    /\ threads[t].pc = "words"
    /\ threads[t].i = Len(threads[t].values)
    /\ locks' = Unlock(locks, "coils", t)
    /\ threads' = [threads EXCEPT ![t].pc = "sync", ![t].i = 0]
    /\ UNCHANGED << storeVars, hr_versions >>
    /\ ConcStep

\* sync_variable_from_coil: `let mut vars = self.variables.write();`
\* (data_store.rs:343)
CoilSyncLock(t) ==
    /\ threads[t].pc = "sync"
    /\ threads[t].i < Len(threads[t].values)
    /\ CanWrite("variables")
    /\ locks' = LockWrite(locks, "variables", t)
    /\ threads' = [threads EXCEPT ![t].pc = "sync_apply"]
    /\ UNCHANGED << storeVars, hr_versions >>
    /\ ConcStep

\* the loop over the catalog with the value that was passed in
\* (data_store.rs:344-348)
CoilSyncApply(t) ==
    /\ threads[t].pc = "sync_apply"
    /\ variables' = sync_variable_from_coil(
                       variables, threads[t].start + threads[t].i,
                       threads[t].values[threads[t].i + 1])
    /\ locks' = Unlock(locks, "variables", t)
    /\ threads' = [threads EXCEPT ![t].pc = "sync", ![t].i = @ + 1]
    /\ BanksUnchanged
    /\ DefinedUnchanged
    /\ UNCHANGED hr_versions
    /\ ConcStep

\* `Ok(())` (data_store.rs:308, 338)
CoilReturn(t) ==
    /\ threads[t].pc = "sync"
    /\ threads[t].i = Len(threads[t].values)
    /\ threads' = [threads EXCEPT ![t].pc = "done", ![t].result = "Ok"]
    /\ UNCHANGED << storeVars, locks, hr_versions >>
    /\ ConcStep

\* two one-word variables, each alone at its address
SyncCatalog ==
    << Variable("v1", "Coil", 0, << "Bool", Bool(FALSE) >>),
       Variable("v2", "HoldingRegister", 0, << "Uint16", Number(1) >>) >>

CoilerCalls ==
    { [NoThread EXCEPT !.op = "write_single_coil", !.pc = "start",
                       !.start = 0, !.values = << TRUE >>, !.count = 1] }

Coiler2Calls ==
    { [NoThread EXCEPT !.op = "write_multiple_coils", !.pc = "start",
                       !.start = 0, !.values = v, !.count = Len(v) % U16] :
        v \in { << FALSE >>, << TRUE, TRUE >> } }

RegisterCalls ==
    { [NoThread EXCEPT !.op = "write_single_register", !.pc = "start",
                       !.start = 0, !.values = << 7 >>, !.count = 1],
      [NoThread EXCEPT !.op = "write_multiple_registers", !.pc = "start",
                       !.start = 0, !.values = << 9 >>, !.count = 1] }

SyncUpdaterCalls ==
    { [NoThread EXCEPT !.op = "update_variable", !.pc = "start",
                       !.id = c[1], !.value = c[2]] :
        c \in { << "v1", Bool(TRUE) >>, << "v2", Number(5) >> } }

InitSync ==
    /\ SetStoreTo(load_variables(NewStore, SyncCatalog, FALSE).st)
    /\ overflow_checks \in BOOLEAN
    /\ CallIdle
    /\ ServerIdle
    /\ LogIdle
    /\ ConnIdle
    /\ \E c \in CoilerCalls, d \in Coiler2Calls, w \in RegisterCalls,
          u \in SyncUpdaterCalls :
         threads = [t \in {"coiler", "coiler2", "writer", "updater"} |->
                      CASE t = "coiler" -> c
                        [] t = "coiler2" -> d
                        [] t = "writer" -> w
                        [] OTHER -> u]
    /\ locks = [l \in LockNames |-> Unlocked]
    /\ hr_versions = {holding_registers}

NextSync ==
    \/ \E t \in CoilThreads : CoilLockDefined(t)
    \/ \E t \in CoilThreads : CoilCheck(t)
    \/ \E t \in CoilThreads : CoilLock(t)
    \/ \E t \in CoilThreads : CoilBounds(t)
    \/ \E t \in CoilThreads : CoilWord(t)
    \/ \E t \in CoilThreads : CoilDrop(t)
    \/ \E t \in CoilThreads : CoilSyncLock(t)
    \/ \E t \in CoilThreads : CoilSyncApply(t)
    \/ \E t \in CoilThreads : CoilReturn(t)
    \/ LockDefined("writer")
    \/ CheckDefined("writer")
    \/ WriteLock
    \/ WriteBounds
    \/ WriteWord
    \/ WriteDrop
    \/ SyncLockBank
    \/ SyncLockVars
    \/ SyncApply
    \/ WriteReturn
    \/ UpdateLock
    \/ UpdateSet
    \/ UpdateBit
    \/ UpdateLockBank
    \/ UpdateWord
    \/ UpdateReturn

SpecSync == InitSync /\ [][NextSync]_vars

\* no data-store operation is in flight
AtRest == \A t \in DOMAIN threads : threads[t].pc \in {"done", "panicked"}

\* the cell of a one-word variable decodes to its value, up to the
\* coercion of its type
CellAgrees(var) ==
    CASE var.area = "Coil" -> coils[var.address] = as_bool(var.value)
      [] var.area = "DiscreteInput" ->
           discrete_inputs[var.address] = as_bool(var.value)
      [] var.area = "InputRegister" ->
           input_registers[var.address] = as_u16(var.value)
      [] OTHER -> holding_registers[var.address] = as_u16(var.value)

\* C11: in every state with no data-store operation in flight, reached by
\* any interleaving of concurrent write_single_coil, write_multiple_coils,
\* write_single_register, write_multiple_registers and update_variable
\* calls that target a one-word variable alone at its address, the bank
\* cell at the variable's address decodes to the variable's value.
C11_AgreeAtRest ==
    AtRest => \A id \in DOMAIN variables : CellAgrees(variables[id])

(***************************************************************************)
(* load_variables (data_store.rs:76-113) as thread "loader", next to a     *)
(* read_holding_registers ("reader") and a get_variables ("getter").       *)
(* Every block of load_variables takes its lock and drops it at the end    *)
(* of the block.                                                           *)
(***************************************************************************)
\* the defined-sets in the order load_variables clears them
DefinedSets == << "defined_coils", "defined_discrete_inputs",
                  "defined_holding_registers", "defined_input_registers" >>

DefinedLock(area) ==
    CASE area = "Coil" -> "defined_coils"
      [] area = "DiscreteInput" -> "defined_discrete_inputs"
      [] area = "InputRegister" -> "defined_input_registers"
      [] OTHER -> "defined_holding_registers"

\* the variable the loop of load_variables is at
LoaderVar == threads["loader"].values[threads["loader"].i]

\* `vars_map.clear();` (data_store.rs:78-81)
LoadClearVariables ==
    /\ threads["loader"].pc = "start"
    /\ CanWrite("variables")
    /\ variables' = << >>
    /\ threads' = [threads EXCEPT !["loader"].pc = "clear", !["loader"].i = 1]
    /\ BanksUnchanged
    /\ DefinedUnchanged
    /\ UNCHANGED << locks, hr_versions >>
    /\ ConcStep

\* `defined.clear();` on the four defined-sets in turn (data_store.rs:82-97)
LoadClearDefined ==
    /\ threads["loader"].pc = "clear"
    /\ CanWrite(DefinedSets[threads["loader"].i])
    /\ SetStore([Store EXCEPT ![DefinedSets[threads["loader"].i]] = {}])
    /\ threads' =
         [threads EXCEPT
            !["loader"].pc = CASE threads["loader"].i < Len(DefinedSets)
                                    -> "clear"
                               [] threads["loader"].values = << >> -> "done"
                               [] OTHER -> "insert",
            !["loader"].i = IF @ < Len(DefinedSets) THEN @ + 1 ELSE 1]
    /\ UNCHANGED << locks, hr_versions >>
    /\ ConcStep

\* `vars_map.insert(var.id.clone(), var.clone());` (data_store.rs:102-105)
LoadInsert ==
    /\ threads["loader"].pc = "insert"
    /\ CanWrite("variables")
    /\ variables' = MapInsert(variables, LoaderVar.id, LoaderVar)
    /\ threads' = [threads EXCEPT !["loader"].pc = "mark"]
    /\ BanksUnchanged
    /\ DefinedUnchanged
    /\ UNCHANGED << locks, hr_versions >>
    /\ ConcStep

\* `self.mark_addresses_defined(var);` (data_store.rs:108): the guard is
\* dropped at the end of the match arm, or by the unwinding
LoadMark ==
    /\ threads["loader"].pc = "mark"
    /\ CanWrite(DefinedLock(LoaderVar.area))
    /\ LET mk == mark_addresses_defined(Store, LoaderVar, overflow_checks)
       IN  /\ SetStore(mk.st)
           /\ threads' = [threads EXCEPT
                            !["loader"].pc = IF mk.panic THEN "panicked"
                                             ELSE "write"]
    /\ UNCHANGED << locks, hr_versions >>
    /\ ConcStep

\* `self.write_variable_value(var);` (data_store.rs:111) and the end of
\* the loop body
LoadWrite ==
    /\ threads["loader"].pc = "write"
    /\ CanWrite(BankLock(LoaderVar.area))
    /\ SetStore(write_variable_value(Store, LoaderVar))
    /\ hr_versions' =
         hr_versions \cup {write_variable_value(Store, LoaderVar).holding_registers}
    /\ threads' =
         [threads EXCEPT
            !["loader"].pc = IF threads["loader"].i
                                  < Len(threads["loader"].values)
                             THEN "insert" ELSE "done",
            !["loader"].i = @ + 1]
    /\ UNCHANGED locks
    /\ ConcStep

\* get_variables (data_store.rs:261-263)
GetVariablesCall ==
    /\ threads["getter"].pc = "start"
    /\ CanRead("variables")
    /\ threads' = [threads EXCEPT !["getter"].pc = "done",
                                  !["getter"].result = "Ok",
                                  !["getter"].data = get_variables(Store)]
    /\ UNCHANGED << storeVars, locks, hr_versions >>
    /\ ConcStep

\* the catalog loaded first
LoadedFirst ==
    << Variable("v1", "HoldingRegister", 0, << "Uint32", Number(65538) >>) >>

\* the catalogs loaded over it: each defines holding registers 0 and 1
LoadedNext ==
    { << Variable("v1", "HoldingRegister", 0, << "Uint32", Number(196612) >>),
         Variable("v2", "HoldingRegister", 2, << "Uint16", Number(4660) >>) >>,
      << Variable("v2", "Coil", 0, << "Bool", Bool(TRUE) >>),
         Variable("v1", "HoldingRegister", 0, << "Uint32", Number(65538) >>),
         Variable("v3", "HoldingRegister", U16 - 1,
                  << "Uint32", Number(1) >>) >> }

InitLoad ==
    /\ SetStoreTo(load_variables(NewStore, LoadedFirst, FALSE).st)
    /\ overflow_checks \in BOOLEAN
    /\ CallIdle
    /\ ServerIdle
    /\ LogIdle
    /\ ConnIdle
    /\ \E vs \in LoadedNext, n \in 1 .. MaxCount :
         threads =
           [t \in {"loader", "reader", "getter"} |->
              CASE t = "loader" ->
                     [NoThread EXCEPT !.op = "load_variables", !.pc = "start",
                                      !.values = vs]
                [] t = "reader" ->
                     [NoThread EXCEPT !.op = "read_holding_registers",
                                      !.pc = "start", !.start = 0,
                                      !.count = n]
                [] OTHER ->
                     [NoThread EXCEPT !.op = "get_variables", !.pc = "start"]]
    /\ locks = [l \in LockNames |-> Unlocked]
    /\ hr_versions = {holding_registers}

NextLoad ==
    \/ LoadClearVariables
    \/ LoadClearDefined
    \/ LoadInsert
    \/ LoadMark
    \/ LoadWrite
    \/ GetVariablesCall
    \/ LockDefined("reader")
    \/ CheckDefined("reader")
    \/ ReadLock
    \/ ReadBounds
    \/ ReadWord
    \/ ReadReturn

SpecLoad == InitLoad /\ [][NextLoad]_vars

\* the store before the load and the store after a complete load
BeforeLoad == load_variables(NewStore, LoadedFirst, FALSE).st
AfterLoad ==
    load_variables(BeforeLoad, threads["loader"].values, overflow_checks).st

\* what the reader and the getter may return: the answer of one of the two
\* stores
C20_Reader ==
    threads["reader"].pc = "done" =>
      \E st \in {BeforeLoad, AfterLoad} :
         /\ threads["reader"].result = "Ok"
         /\ threads["reader"].data =
              Slice(st.holding_registers, threads["reader"].start,
                    threads["reader"].count)

C20_Getter ==
    threads["getter"].pc = "done" =>
      threads["getter"].data \in {get_variables(BeforeLoad),
                                  get_variables(AfterLoad)}

\* C20: a read or a get_variables that runs concurrently with
\* load_variables(V2) on a store loaded with V1 observes the complete V1
\* state or the complete V2 state: an address defined by both is never
\* answered with IllegalDataAddress, and get_variables returns the catalog
\* of V1 or that of V2.
C20_AtomicReplace == C20_Reader /\ C20_Getter

(***************************************************************************)
(* The server lifecycle (server.rs:75-295): one controller calls start(),  *)
(* stop(), get_status() and set_error(), one call at a time; the accept    *)
(* loops and the connection handlers are tasks of a multi-threaded         *)
(* runtime and run between the statements of a call.                       *)
(*                                                                         *)
(* A shutdown channel is named by the number of the start() that created   *)
(* it; 0 is None.  A receiver is "none" before it subscribes, "empty"      *)
(* once subscribed and "signal" when a value sent after the subscription   *)
(* waits in it.                                                            *)
(***************************************************************************)
MaxStarts == 2
MaxClients == 1

\* ServerConfig::default (server.rs:65-73)
ServerConfig_default == [host |-> "0.0.0.0", port |-> 502, unit_id |-> 1]

\* ModbusServer::new (server.rs:77-88)
NewServer ==
    [running |-> FALSE, connections_count |-> 0, shutdown_tx |-> 0,
     last_error |-> "None", config |-> ServerConfig_default]

NoStatus ==
    [running |-> FALSE, host |-> "0.0.0.0", port |-> 502, unit_id |-> 1,
     connections_count |-> 0, error |-> "None"]

\* the controller: its last call, the position in it and its result, the
\* channel stop() sent on, the status returned
NoControl ==
    [op |-> "none", pc |-> "idle", result |-> "none", tx |-> 0,
     status |-> NoStatus]

\* the controller is between two calls
Returned == control.pc \in {"idle", "done"}

\* the controller enters `op`
Call(op) == [NoControl EXCEPT !.op = op]

\* the call returns `result`
Return(result) == [control EXCEPT !.pc = "done", !.result = result]

InitServer ==
    /\ StoreInit
    /\ overflow_checks \in BOOLEAN
    /\ CallIdle
    /\ ConnIdle
    /\ ConcIdle
    /\ server = NewServer
    /\ control = NoControl
    /\ accept = << >>
    /\ handlers = << >>
    /\ LogIdle

ServerStep ==
    UNCHANGED << storeVars, overflow_checks, callVars, connVars, concVars,
                 logVars >>

\* a server that never sees itself running
is_running_Never(s) == FALSE

\* `self.running.load(Ordering::SeqCst)` (server.rs:105, 163, 267)
is_running(s) == s.running

\* a task still holds the listener of the configured address
ListenerHeld == \E g \in 1 .. Len(accept) : accept[g].pc # "exited"

\* every sender of channel g is dropped: the server's clone by stop()
\* (server.rs:277), the accept task's at the end of the task
Closed(g) == server.shutdown_tx # g /\ accept[g].pc = "exited"

\* `if self.running.load(..) { return Err("Сервер уже запущен") }`
\* (server.rs:163-165)
StartCheck ==
    /\ Returned
    /\ control' = IF is_running(server)
                  THEN [Call("start") EXCEPT !.pc = "done",
                                             !.result = "Err(already running)"]
                  ELSE [Call("start") EXCEPT !.pc = "bind"]
    /\ UNCHANGED << server, accept, handlers >>
    /\ ServerStep

\* `TcpListener::bind(&bind_addr).await.map_err(..)?` (server.rs:171-173):
\* the bind fails when the address is in use, and may fail for a reason
\* outside the program
StartBind ==
    /\ control.op = "start"
    /\ control.pc = "bind"
    /\ \/ /\ ~ListenerHeld
          /\ Len(accept) < MaxStarts
          /\ control' = [control EXCEPT !.pc = "channel"]
       \/ control' = Return("Err(bind)")
    /\ UNCHANGED << server, accept, handlers >>
    /\ ServerStep

\* `let (shutdown_tx, _) = broadcast::channel::<()>(1);
\*  *self.shutdown_tx.write() = Some(shutdown_tx.clone());`
\* (server.rs:178-179)
StartChannel ==
    /\ control.op = "start"
    /\ control.pc = "channel"
    /\ server' = [server EXCEPT !.shutdown_tx = Len(accept) + 1]
    /\ control' = [control EXCEPT !.pc = "clear_error"]
    /\ UNCHANGED << accept, handlers >>
    /\ ServerStep

\* `*self.last_error.write() = None;` (server.rs:182)
StartClearError ==
    /\ control.op = "start"
    /\ control.pc = "clear_error"
    /\ server' = [server EXCEPT !.last_error = "None"]
    /\ control' = [control EXCEPT !.pc = "mark"]
    /\ UNCHANGED << accept, handlers >>
    /\ ServerStep

\* `self.running.store(true, Ordering::SeqCst);` (server.rs:185)
StartMark ==
    /\ control.op = "start"
    /\ control.pc = "mark"
    /\ server' = [server EXCEPT !.running = TRUE]
    /\ control' = [control EXCEPT !.pc = "spawn"]
    /\ UNCHANGED << accept, handlers >>
    /\ ServerStep

\* the accept task as tokio::spawn leaves it (server.rs:194-201): it owns
\* the listener, the sender and a counter of its own, and has not run;
\* `stopped` records that the stop() matching its start() returned Ok
NewAccept ==
    [pc |-> "spawned", rx |-> "none", connections_count |-> 0,
     stopped |-> FALSE]

\* `tokio::spawn(async move { .. }); Ok(())` (server.rs:201-262)
StartSpawn ==
    /\ control.op = "start"
    /\ control.pc = "spawn"
    /\ accept' = Append(accept, NewAccept)
    /\ control' = Return("Ok")
    /\ UNCHANGED << server, handlers >>
    /\ ServerStep

\* `if !self.running.load(..) { return Err("Сервер не запущен") }`
\* (server.rs:267-269)
StopCheck ==
    /\ Returned
    /\ control' = IF ~is_running(server)
                  THEN [Call("stop") EXCEPT !.pc = "done",
                                            !.result = "Err(not running)"]
                  ELSE [Call("stop") EXCEPT !.pc = "send"]
    /\ UNCHANGED << server, accept, handlers >>
    /\ ServerStep

\* a value sent on a channel reaches the receivers subscribed to it
Deliver(rx) == IF rx = "empty" THEN "signal" ELSE rx

\* `if let Some(tx) = self.shutdown_tx.read().as_ref() { let _ = tx.send(()); }`
\* (server.rs:272-274)
StopSend ==
    /\ control.op = "stop"
    /\ control.pc = "send"
    /\ accept' = [g \in 1 .. Len(accept) |->
                    IF g = server.shutdown_tx
                    THEN [accept[g] EXCEPT !.rx = Deliver(@)]
                    ELSE accept[g]]
    /\ handlers' = [h \in 1 .. Len(handlers) |->
                      IF handlers[h].tx = server.shutdown_tx
                      THEN [handlers[h] EXCEPT !.rx = Deliver(@)]
                      ELSE handlers[h]]
    /\ control' = [control EXCEPT !.pc = "clear", !.tx = server.shutdown_tx]
    /\ UNCHANGED server
    /\ ServerStep

\* `*self.shutdown_tx.write() = None;` (server.rs:277)
StopClear ==
    /\ control.op = "stop"
    /\ control.pc = "clear"
    /\ server' = [server EXCEPT !.shutdown_tx = 0]
    /\ control' = [control EXCEPT !.pc = "mark"]
    /\ UNCHANGED << accept, handlers >>
    /\ ServerStep

\* `self.running.store(false, Ordering::SeqCst);` (server.rs:280)
StopMark ==
    /\ control.op = "stop"
    /\ control.pc = "mark"
    /\ server' = [server EXCEPT !.running = FALSE]
    /\ control' = [control EXCEPT !.pc = "reset"]
    /\ UNCHANGED << accept, handlers >>
    /\ ServerStep

\* `self.connections_count.store(0, Ordering::SeqCst); .. Ok(())`
\* (server.rs:281-288)
StopReset ==
    /\ control.op = "stop"
    /\ control.pc = "reset"
    /\ server' = [server EXCEPT !.connections_count = 0]
    /\ control' = Return("Ok")
    /\ accept' = [g \in 1 .. Len(accept) |->
                    IF g = control.tx THEN [accept[g] EXCEPT !.stopped = TRUE]
                    ELSE accept[g]]
    /\ UNCHANGED handlers
    /\ ServerStep

\* get_status (server.rs:109-121)
get_status(s) ==
    [running |-> s.running, host |-> s.config.host, port |-> s.config.port,
     unit_id |-> s.config.unit_id,
     connections_count |-> s.connections_count, error |-> s.last_error]

GetStatus ==
    /\ Returned
    /\ control' = [Call("get_status") EXCEPT !.pc = "done", !.result = "Ok",
                                             !.status = get_status(server)]
    /\ UNCHANGED << server, accept, handlers >>
    /\ ServerStep

\* set_error (server.rs:292-294)
SetError ==
    /\ Returned
    /\ server' = [server EXCEPT !.last_error = "error"]
    /\ control' = [Call("set_error") EXCEPT !.pc = "done", !.result = "Ok"]
    /\ UNCHANGED << accept, handlers >>
    /\ ServerStep

\* `let mut shutdown_rx = shutdown_tx.subscribe();` (server.rs:202): the
\* first statement of the spawned task
AcceptSubscribe(g) ==
    /\ accept[g].pc = "spawned"
    /\ accept' = [accept EXCEPT ![g].pc = "select", ![g].rx = "empty"]
    /\ UNCHANGED << server, control, handlers >>
    /\ ServerStep

\* the handler task as the accept loop spawns it (server.rs:224-243): its
\* receiver is subscribed at line 226, its client has sent nothing
NewHandler(g) ==
    [tx |-> g, pc |-> "select", rx |-> "empty", client |-> "silent"]

\* `accept_result = listener.accept() => { Ok((socket, addr)) => .. }`
\* (server.rs:207-244)
AcceptConnection(g) ==
    /\ accept[g].pc = "select"
    /\ Len(handlers) < MaxClients
    /\ accept' = [accept EXCEPT ![g].connections_count = @ + 1]
    /\ handlers' = Append(handlers, NewHandler(g))
    /\ UNCHANGED << server, control >>
    /\ ServerStep

\* `_ = shutdown_rx.recv() => { .. break; }` (server.rs:251-255) and the
\* end of the task, which drops the listener and the sender
AcceptShutdown(g) ==
    /\ accept[g].pc = "select"
    /\ accept[g].rx = "signal"
    /\ accept' = [accept EXCEPT ![g].pc = "exited", ![g].rx = "none"]
    /\ UNCHANGED << server, control, handlers >>
    /\ ServerStep

\* the end of handle_connection, which drops the socket and the receiver,
\* and `connections_count.fetch_sub(1, Ordering::SeqCst);` (server.rs:241)
HandlerExit(h) ==
    /\ handlers' = [handlers EXCEPT ![h].pc = "exited", ![h].rx = "none",
                                    ![h].client = "gone"]
    /\ accept' = [accept EXCEPT ![handlers[h].tx].connections_count = @ - 1]
    /\ UNCHANGED << server, control >>
    /\ ServerStep

\* `read_result = socket.read(&mut buffer) => { Ok(n) => .. }` up to
\* `socket.write_all(&response).await` (server.rs:314-383)
HandlerRead(h) ==
    /\ handlers[h].pc = "select"
    /\ handlers[h].client \in {"sent", "stalled"}
    /\ handlers' = [handlers EXCEPT ![h].pc = "write_all"]
    /\ UNCHANGED << server, control, accept >>
    /\ ServerStep

\* write_all completes (server.rs:383): the client takes the response
HandlerWritten(h) ==
    /\ handlers[h].pc = "write_all"
    /\ handlers[h].client = "sent"
    /\ handlers' = [handlers EXCEPT ![h].pc = "select", ![h].client = "silent"]
    /\ UNCHANGED << server, control, accept >>
    /\ ServerStep

\* write_all fails, `return;` (server.rs:383-386)
HandlerWriteFailed(h) ==
    /\ handlers[h].pc = "write_all"
    /\ handlers[h].client = "closed"
    /\ HandlerExit(h)

\* `Ok(0) => { .. break; }` (server.rs:316-325)
HandlerEof(h) ==
    /\ handlers[h].pc = "select"
    /\ handlers[h].client = "closed"
    /\ HandlerExit(h)

\* `_ = shutdown_rx.recv() => { .. break; }` (server.rs:419-422): recv
\* completes with the value, or with Err(Closed) on a closed channel
HandlerShutdown(h) ==
    /\ handlers[h].pc = "select"
    /\ handlers[h].rx = "signal" \/ Closed(handlers[h].tx)
    /\ HandlerExit(h)

\* the client of a connection: it sends a request and reads the response,
\* or sends requests and stops reading until the socket buffers are full,
\* or closes
ClientStep(h) ==
    /\ handlers[h].pc # "exited"
    /\ \/ /\ handlers[h].client = "silent"
          /\ \E c \in {"sent", "stalled"} :
               handlers' = [handlers EXCEPT ![h].client = c]
       \/ /\ handlers[h].client # "closed"
          /\ handlers' = [handlers EXCEPT ![h].client = "closed"]
    /\ UNCHANGED << server, control, accept >>
    /\ ServerStep

ControlCall == StartCheck \/ StopCheck \/ GetStatus \/ SetError

ControlStep ==
    \/ StartBind
    \/ StartChannel
    \/ StartClearError
    \/ StartMark
    \/ StartSpawn
    \/ StopSend
    \/ StopClear
    \/ StopMark
    \/ StopReset

AcceptStep(g) ==
    \/ AcceptSubscribe(g)
    \/ AcceptConnection(g)
    \/ AcceptShutdown(g)

HandlerStep(h) ==
    \/ HandlerRead(h)
    \/ HandlerWritten(h)
    \/ HandlerWriteFailed(h)
    \/ HandlerEof(h)
    \/ HandlerShutdown(h)

NextServer ==
    \/ StartCheck
    \/ StopCheck
    \/ GetStatus
    \/ SetError
    \/ StartBind
    \/ StartChannel
    \/ StartClearError
    \/ StartMark
    \/ StartSpawn
    \/ StopSend
    \/ StopClear
    \/ StopMark
    \/ StopReset
    \/ \E g \in 1 .. Len(accept) : AcceptSubscribe(g)
    \/ \E g \in 1 .. Len(accept) : AcceptConnection(g)
    \/ \E g \in 1 .. Len(accept) : AcceptShutdown(g)
    \/ \E h \in 1 .. Len(handlers) : HandlerRead(h)
    \/ \E h \in 1 .. Len(handlers) : HandlerWritten(h)
    \/ \E h \in 1 .. Len(handlers) : HandlerWriteFailed(h)
    \/ \E h \in 1 .. Len(handlers) : HandlerEof(h)
    \/ \E h \in 1 .. Len(handlers) : HandlerShutdown(h)
    \/ \E h \in 1 .. Len(handlers) : ClientStep(h)

SpecServer == InitServer /\ [][NextServer]_vars

\* the runtime runs every task that can run, and a call that was entered
\* runs to its return; the controller and the clients are free
SpecServerFair ==
    /\ SpecServer
    /\ WF_vars(ControlStep)
    /\ \A g \in 1 .. MaxStarts :
         WF_vars(g <= Len(accept) /\ (AcceptSubscribe(g) \/ AcceptShutdown(g)))
    /\ \A h \in 1 .. MaxClients :
         WF_vars(h <= Len(handlers) /\ HandlerStep(h))

(***************************************************************************)
(* Properties of the lifecycle.                                            *)
(***************************************************************************)
\* this step is the controller entering `op`
Entered(op) == Returned /\ control' # control /\ control'.op = op

\* this step is `op` returning `result`
Returns(op, result) ==
    /\ ~Returned
    /\ control'.pc = "done"
    /\ control'.op = op
    /\ control'.result = result

\* the handlers that have not exited
LiveHandlers == {h \in 1 .. Len(handlers) : handlers[h].pc # "exited"}

C12_Step ==
    /\ Entered("start") /\ server.running =>
         /\ control'.pc = "done"
         /\ control'.result = "Err(already running)"
         /\ UNCHANGED << server, accept, handlers >>
    /\ Entered("stop") /\ ~server.running =>
         /\ control'.pc = "done"
         /\ control'.result = "Err(not running)"
         /\ UNCHANGED << server, accept, handlers >>
    /\ Returns("start", "Ok") =>
         /\ server'.running
         /\ server'.last_error = "None"
    /\ Returns("stop", "Ok") =>
         /\ ~server'.running
         /\ server'.shutdown_tx = 0
         /\ server'.connections_count = 0

\* C12: start() called while Running returns the "already running" error
\* and leaves the running flag, the shutdown channel and the accept loops
\* as they are; stop() called while Stopped returns the "not running"
\* error and changes nothing; a start() that returns Ok leaves
\* running = true and no error; a stop() that returns Ok leaves
\* running = false, no shutdown sender and connections_count = 0.
C12_Lifecycle == [][C12_Step]_vars

\* the second start() has returned Ok after a stop() that returned Ok, and
\* a third start() was rejected: the server of the second start() is as
\* that start() left it
C12_Witness ==
    /\ control.op = "start"
    /\ control.pc = "done"
    /\ control.result = "Err(already running)"
    /\ server = [NewServer EXCEPT !.running = TRUE, !.shutdown_tx = 2]
    /\ Len(accept) = 2
    /\ accept[1].stopped
    /\ accept[1].pc = "exited"
    /\ accept[2].pc = "select"

\* the error string of a failed bind (server.rs:173)
BindError == "Err(bind)"

C13_Step ==
    /\ Returns("start", BindError) =>
         /\ ~server'.running
         /\ accept' = accept
         /\ server'.last_error = BindError
    /\ (Entered("get_status") /\ control.op = "start"
          /\ control.result = BindError) =>
         control'.status.error = BindError

\* C13: when start() cannot bind the listener it returns the error string,
\* the server stays Stopped with no accept loop spawned, and last_error
\* holds the error, so that the next get_status() reports it.
C13_BindFailure == [][C13_Step]_vars

\* C14: after a stop() that returned Ok, the accept loop spawned by the
\* matching start() eventually receives the shutdown signal and exits,
\* releasing the listener, however the stop() interleaves with the
\* scheduling of the accept task.
C14_AcceptLoopShutdown ==
    \A g \in 1 .. MaxStarts :
       (g <= Len(accept) /\ accept[g].stopped)
          ~> (g <= Len(accept) /\ accept[g].pc = "exited")

\* C15: every connection handler spawned by an accept loop eventually
\* exits once the stop() matching that loop has returned, whatever its
\* client does and whether it was accepted before or during the broadcast.
C15_HandlerShutdown ==
    \A h \in 1 .. MaxClients :
       (h <= Len(handlers) /\ accept[handlers[h].tx].stopped)
          ~> (h <= Len(handlers) /\ handlers[h].pc = "exited")

C16_Step ==
    (Entered("get_status") /\ server.running) =>
       control'.status.connections_count = Cardinality(LiveHandlers)

\* C16: while the server is Running, the connections_count that
\* get_status() returns is the number of accepted connections whose
\* handler has not exited.
C16_ConnectionCount == [][C16_Step]_vars

(***************************************************************************)
(* Further properties of the data store driven by one caller               *)
(***************************************************************************)
\* the words a value of type dt is encoded into (the spec's register
\* packing: one word, or high word then low word)
EncodedWords(dt, value) ==
    CASE dt = "Bool" -> << IF as_bool(value) THEN 1 ELSE 0 >>
      [] dt = "Uint16" -> << as_u16(value) >>
      [] dt = "Int16" -> << (as_i16(value) + U16) % U16 >>
      [] dt = "Uint32" -> << as_u32(value).hi, as_u32(value).lo >>
      [] OTHER -> << as_f32_bits(value).hi, as_f32_bits(value).lo >>

\* the cells of var in the store st hold the encoding of value
CellsEncode(st, var, value) ==
    CASE var.area = "Coil" -> st.coils[var.address] = as_bool(value)
      [] var.area = "DiscreteInput" ->
           st.discrete_inputs[var.address] = as_bool(value)
      [] OTHER ->
           LET regs == IF var.area = "HoldingRegister"
                       THEN st.holding_registers ELSE st.input_registers
               words == EncodedWords(var.data_type, value)
           IN  \A w \in 1 .. Len(words) :
                 var.address + w - 1 < U16 =>
                   regs[var.address + w - 1] = words[w]

C21_Step ==
    (nops' # nops /\ last'.op = "update_variable") =>
      /\ DefinedUnchanged
      /\ IF last'.id \in DOMAIN variables
         THEN /\ last'.result = "true"
              /\ variables' =
                   [variables EXCEPT ![last'.id].value = last'.arg]
              /\ CellsEncode(StoreAfter, variables[last'.id], last'.arg)
         ELSE /\ last'.result = "false"
              /\ UNCHANGED variables
              /\ BanksUnchanged

\* C21: update_variable(id, value) on an id of the catalog replaces the
\* variable's value, leaves the variable's bank cells holding the encoding
\* of the new value and returns true; on an id that is not in the catalog
\* it returns false and leaves catalog and banks as they were; the four
\* defined-sets are unchanged in both cases.
C21_UpdateVariable == [][C21_Step]_vars

(***************************************************************************)
(* clear() on a loaded store, followed by protocol calls                   *)
(***************************************************************************)
\* the lists the store was loaded with before clear(): one variable
LoadedOnce ==
    { << Variable("v1", area, address, tv) >> :
        area \in Areas, address \in VarAddrs, tv \in TypedValues }

InitLoaded ==
    /\ overflow_checks \in BOOLEAN
    /\ \E vs \in LoadedOnce :
         SetStoreTo(load_variables(NewStore, vs, overflow_checks).st)
    /\ CallIdle
    /\ ServerIdle
    /\ LogIdle
    /\ ConnIdle
    /\ ConcIdle

\* clear() (data_store.rs:537-583), called once
ClearLoaded ==
    /\ last.op # "clear"
    /\ SetStore(clear(Store))
    /\ last' = [NoCall EXCEPT !.op = "clear", !.result = "Ok"]
    /\ UNCHANGED << nloads, nops, overflow_checks, connVars, concVars,
                    serverVars, logVars >>

NextClear ==
    \/ ClearLoaded
    \/ Read
    \/ WriteSingleCoil
    \/ WriteMultipleCoils
    \/ WriteSingleRegister
    \/ WriteMultipleRegisters

SpecClear == InitLoaded /\ [][NextClear]_vars

\* every cell is 0 / false, the catalog and the defined-sets are empty
Blank(st) ==
    /\ \A a \in CellAddrs :
         /\ ~st.coils[a]
         /\ ~st.discrete_inputs[a]
         /\ st.input_registers[a] = 0
         /\ st.holding_registers[a] = 0
    /\ st.variables = << >>
    /\ st.defined_coils = {}
    /\ st.defined_discrete_inputs = {}
    /\ st.defined_holding_registers = {}
    /\ st.defined_input_registers = {}

C22_Step ==
    /\ (last' # last /\ last'.op = "clear") => Blank(StoreAfter)
    /\ (last.op = "clear" /\ nops' # nops
          /\ last'.op \in {"read"} \cup WriteOps) =>
         last'.result = "IllegalDataAddress"

\* C22: when clear() returns every cell of the four banks is 0 / false and
\* the catalog and the four defined-sets are empty, and the protocol read
\* or write that follows it, at any address, returns IllegalDataAddress.
C22_Clear == [][C22_Step]_vars

\* the calls on a range of cells that go through check_addresses_defined
RangeOps == {"read", "write_multiple_coils", "write_multiple_registers"}

C23_Step ==
    (nops' # nops /\ last'.op \in RangeOps
       /\ last'.start + last'.count > U16) =>
      /\ last'.result = "IllegalDataAddress"
      /\ UNCHANGED storeVars

\* C23: a protocol read or a multi-cell write with start + count > 65536
\* returns IllegalDataAddress and changes nothing in the store.
C23_AddressSpaceBound == [][C23_Step]_vars

(***************************************************************************)
(* pack_bits and the bit decoder of WriteMultipleCoilsRequest::parse       *)
(* applied to sequences of booleans: `last.values` is the input,           *)
(* `last.data` the packed bytes and then the decoded bits.                 *)
(***************************************************************************)
MaxBits == 9

\* the longest sequence the one-byte count of a request body can carry
MaxBodyBits == 2040

BitSeqs ==
    UNION { [1 .. n -> BOOLEAN] : n \in 0 .. MaxBits }
      \cup { [i \in 1 .. MaxBodyBits |-> i % 3 = 0] }

InitPack ==
    /\ StoreInit
    /\ overflow_checks \in BOOLEAN
    /\ \E bits \in BitSeqs, start \in {0, U16 - 1} :
         last = [NoCall EXCEPT !.op = "bits", !.values = bits,
                               !.start = start]
    /\ nloads = 0
    /\ nops = 0
    /\ ServerIdle
    /\ LogIdle
    /\ ConnIdle
    /\ ConcIdle

PackStep ==
    UNCHANGED << storeVars, overflow_checks, nloads, nops, connVars,
                 concVars, serverVars, logVars >>

\* `let packed = pack_bits(&coils);` (server.rs:581)
PackBits ==
    /\ last.op = "bits"
    /\ last' = [last EXCEPT !.op = "pack_bits",
                            !.data = pack_bits(last.values)]
    /\ PackStep

\* the body of a Write Multiple Coils request: start, quantity, byte
\* count, bytes
CoilsBody(start, quantity, bytes) ==
    to_be_bytes(start) \o to_be_bytes(quantity) \o << Len(bytes) >> \o bytes

\* WriteMultipleCoilsRequest::parse on the body that carries the packed
\* bytes
UnpackBits ==
    /\ last.op = "pack_bits"
    /\ LET r == WriteMultipleCoilsRequest_parse(
                  CoilsBody(last.start, Len(last.values), last.data))
       IN  last' = [last EXCEPT !.op = "unpack_bits", !.result = r.result,
                                !.count = r.quantity, !.data = r.values]
    /\ PackStep

NextPack == PackBits \/ UnpackBits

SpecPack == InitPack /\ [][NextPack]_vars

\* bit k (0 the lowest) of a byte
BitOf(byte, k) == (byte \div Pow2(k)) % 2 = 1

\* C24: pack_bits puts bit i of a sequence of n booleans into bit i mod 8
\* of byte floor(i / 8) of ceil(n / 8) bytes and leaves the unused high
\* bits of the last byte zero, and the Write Multiple Coils body decoder,
\* unpacking n bits from these bytes, returns the sequence.
C24_BitPackLaw ==
    LET n == Len(last.values)
    IN  /\ last.op = "pack_bits" =>
             /\ Len(last.data) = (n + 7) \div 8
             /\ \A j \in 1 .. Len(last.data) : \A k \in 0 .. 7 :
                  BitOf(last.data[j], k) =
                    (8 * (j - 1) + k < n /\ last.values[8 * (j - 1) + k + 1])
             /\ \A j \in 1 .. Len(last.data) : last.data[j] \in 0 .. 255
        /\ last.op = "unpack_bits" =>
             /\ last.result = "Ok"
             /\ last.count = n
             /\ last.data = last.values

\* the nine bits of test_pack_bits (modbus_protocol.rs:504-509) came back
C24_Witness ==
    /\ last.op = "unpack_bits"
    /\ last.values = << TRUE, FALSE, TRUE, TRUE, FALSE, FALSE, FALSE, FALSE,
                        TRUE >>
    /\ last.data = last.values

(***************************************************************************)
(* Word order of 32-bit values                                             *)
(***************************************************************************)
\* var is a 32-bit variable of a register bank at an address a with
\* a + 1 an address of the bank
Wide(var) ==
    /\ var.area \in RegisterAreas
    /\ var.data_type \in {"Uint32", "Float32"}
    /\ var.address + 1 < U16

\* each word as two bytes, high byte first, in the order of the words
BigEndian(bytes, words) ==
    /\ Len(bytes) = 2 * Len(words)
    /\ \A i \in 1 .. Len(words) :
         /\ bytes[2 * i - 1] = words[i] \div 256
         /\ bytes[2 * i] = words[i] % 256

\* a store loaded with one variable, then update_variable and reads
NextWide == UpdateVariable \/ Read

SpecWide == InitLoaded /\ [][NextWide]_vars

\* C25: a Uint32 x (or the bit pattern x of a Float32) stored at register
\* addresses a and a + 1 by load_variables or update_variable leaves
\* cell[a] = x div 65536 and cell[a + 1] = x mod 65536, and the bytes of a
\* register read response are the cells in ascending address order, each
\* as two bytes, high byte first.
C25_WordOrder ==
    /\ nops = 0 =>
         \A id \in DOMAIN variables :
            Wide(variables[id]) =>
              CellsEncode(Store, variables[id], variables[id].value)
    /\ (last.op = "update_variable" /\ last.result = "true"
          /\ Wide(variables[last.id])) =>
         CellsEncode(Store, variables[last.id], last.arg)
    /\ (last.op = "read" /\ last.result = "Ok"
          /\ last.area \in RegisterAreas) =>
         BigEndian(pack_registers(last.data), last.data)

\* the Uint32 65538 loaded at holding register 0 was read as the words
\* 1, 2, which a response carries as the bytes 0, 1, 0, 2
C25_Witness ==
    /\ last.op = "read"
    /\ last.area = "HoldingRegister"
    /\ last.start = 0
    /\ last.result = "Ok"
    /\ last.data = << 1, 2 >>
    /\ pack_registers(last.data) = << 0, 1, 0, 2 >>
    /\ \E id \in DOMAIN variables :
         /\ variables[id].address = 0
         /\ variables[id].data_type = "Uint32"
         /\ variables[id].value = Number(65538)


(***************************************************************************)
(* Resynchronisation after a frame that does not parse                     *)
(* (server.rs:388-398): three frames on one connection, any slicing        *)
(***************************************************************************)
\* protocol id, unit id, function code and body of the frames
ResyncChoices ==
    { << 1, 1, WriteRegister0[1], WriteRegister0[2] >>,     \* proto_id 1
      << 0, 1, ReadHolding0[1], ReadHolding0[2] >>,
      << 0, 1, 1, << 0, 0, 0, 1 >> >>,                      \* read coil 0
      << 0, 7, ReadHolding0[1], ReadHolding0[2] >> }        \* another unit

ResyncLists ==
    { [i \in DOMAIN TxnIds |->
         Encode(TxnIds[i], f[i][1], f[i][2], f[i][3], f[i][4])] :
      f \in [DOMAIN TxnIds -> ResyncChoices] }

InitResync ==
    /\ SetStoreTo(load_variables(NewStore, ConnCatalog, FALSE).st)
    /\ overflow_checks \in BOOLEAN
    /\ CallIdle
    /\ ServerIdle
    /\ ConnLog(FALSE)
    /\ unit_id = 1
    /\ requests \in ResyncLists
    /\ wire = Concat(requests)
    /\ frame_buffer = << >>
    /\ hpc = "select"
    /\ response = << >>
    /\ sent = << >>
    /\ ndrained = 0
    /\ ConcIdle

SpecResync == InitResync /\ [][NextConn]_vars

\* the first frame of the client that does not parse
Unparsable == {i \in DOMAIN requests :
                 ModbusRequest_parse(requests[i]).result = "Err"}
FirstBad ==
    IF Unparsable = {} THEN 0
    ELSE CHOOSE i \in Unparsable : \A k \in Unparsable : i <= k

\* the handler has drained the frames up to the first one that does not
\* parse and nothing since: one parse failure, and every byte in the
\* buffer was received in a read after it
OneFailure == FirstBad > 0 /\ ndrained = FirstBad

\* the frames from the i-th on, as the client sent them
FramesFrom(i) == Concat(SubSeq(requests, i, Len(requests)))

\* the buffer ends with the frames from the i-th on, whole
HoldsWhole(i) ==
    /\ Len(frame_buffer) >= Len(FramesFrom(i))
    /\ SubSeq(frame_buffer, Len(frame_buffer) - Len(FramesFrom(i)) + 1,
              Len(frame_buffer)) = FramesFrom(i)

\* everything the client sent was read and the handler waits for more
Quiet == wire = << >> /\ hpc = "select"

\* the parse failure sends nothing, clears the whole buffer, complete
\* frames behind the failed one included, and keeps the connection in its
\* read loop
C26_Step ==
    (DrainStep /\ ModbusRequest_parse(frame_data).result = "Err")
    => /\ UNCHANGED << storeVars, sent, response >>
       /\ frame_buffer' = << >>
       /\ hpc' = "frames"

\* after the one parse failure the handler does not wait for input with a
\* well-formed frame, received whole in a later read, unanswered in its
\* buffer
C26_Later ==
    (Quiet /\ OneFailure) =>
      \A i \in DOMAIN requests :
         WellFormed(requests[i]) => ~ HoldsWhole(i)

\* C26: when a drained frame fails to parse, the handler sends no response
\* for it, discards the whole reassembly buffer with the complete frames
\* buffered behind it, keeps the connection open, and answers the frames
\* received in later reads normally.
C26_ParseFailureResync == [][C26_Step]_vars /\ [] C26_Later


(***************************************************************************)
(* The dispatcher on a store that answers the largest reads: 2000 coils    *)
(* and 125 holding registers are defined.                                  *)
(***************************************************************************)
\* the bank cells of the store: the cells of the model and those of the
\* largest reads
HeaderCells == CellAddrs \cup 0 .. 1999

\* coils 0 .. 1999 and holding registers 0 .. 124, one variable each
HeaderCatalog ==
    [i \in 1 .. 2125 |->
       IF i <= 2000
       THEN Variable(ToString(i), "Coil", i - 1, << "Bool", Bool(i % 3 = 0) >>)
       ELSE Variable(ToString(i), "HoldingRegister", i - 2001,
                     << "Uint16", Number(i * 31) >>)]

\* the store after load_variables(HeaderCatalog) (data_store.rs:76-113):
\* the catalog by id, the address of every variable defined, its cell
\* holding its value, every other cell as ModbusDataStore::new left it
HeaderStore ==
    [coils |-> [a \in HeaderCells |-> a < 2000 /\ (a + 1) % 3 = 0],
     discrete_inputs |-> [a \in HeaderCells |-> FALSE],
     input_registers |-> [a \in HeaderCells |-> 0],
     holding_registers |->
         [a \in HeaderCells |-> IF a < 125 THEN (a + 2001) * 31 ELSE 0],
     variables |->
         [id \in {ToString(i) : i \in DOMAIN HeaderCatalog} |->
            HeaderCatalog[CHOOSE i \in DOMAIN HeaderCatalog :
                            ToString(i) = id]],
     defined_coils |-> 0 .. 1999,
     defined_discrete_inputs |-> {},
     defined_holding_registers |-> 0 .. 124,
     defined_input_registers |-> {}]

\* function code and body of the requests
HeaderPdus ==
    { << fc, to_be_bytes(0) \o to_be_bytes(q) >> :
        fc \in {1, 2}, q \in {1, 8, 9, 1999, 2000, 2001} }
    \cup { << fc, to_be_bytes(a) \o to_be_bytes(q) >> :
             fc \in {3, 4}, a \in {0, 1}, q \in {1, 124, 125, 126} }
    \cup { << 5, << 0, 0, 255, 0 >> >>, << 5, << 0, 0, 1, 0 >> >>,
           << 6, << 0, 124, 171, 205 >> >>, << 6, << 0, 125, 0, 1 >> >>,
           << 15, << 0, 0, 0, 9, 2, 85, 1 >> >>, << 15, << 7, 207, 0, 2, 1, 3 >> >>,
           << 16, << 0, 123, 0, 2, 4, 0, 7, 0, 7 >> >>,
           << 16, << 0, 124, 0, 2, 4, 0, 7, 0, 7 >> >>,
           << 16, << 0, 0 >> >>, << 43, << 14, 1, 0 >> >>, << 131, << >> >> }

HeaderFrames ==
    { Encode(t, 0, u, pdu[1], pdu[2]) :
        t \in {0, 513, U16 - 1}, u \in {0, 1, 247}, pdu \in HeaderPdus }

InitHeader ==
    /\ SetStoreTo(HeaderStore)
    /\ overflow_checks \in BOOLEAN
    /\ CallIdle
    /\ ServerIdle
    /\ LogIdle
    /\ ConcIdle
    /\ unit_id = 1
    /\ \E f \in HeaderFrames : requests = << f >>
    /\ wire = << >>
    /\ frame_buffer = << >>
    /\ hpc = "dispatch"
    /\ response = << >>
    /\ sent = << >>
    /\ ndrained = 0

SpecHeader == InitHeader /\ [][NextDispatch]_vars

\* the MBAP length field of a frame
LengthOf(frame) == from_be_bytes(frame[5], frame[6])

\* C27: every response frame the dispatcher produces, normal or exception,
\* has the transaction id and the unit id of the request, proto_id 0, and
\* an MBAP length field equal to the number of bytes that follow the length
\* field (the frame is 6 + length bytes), the largest legal read responses
\* included.
C27_ResponseHeader ==
    hpc = "replied" =>
      /\ Len(response) >= MbapHeader_SIZE + 2
      /\ TxnOf(response) = TxnOf(requests[1])
      /\ UnitOf(response) = UnitOf(requests[1])
      /\ from_be_bytes(response[3], response[4]) = 0
      /\ Len(response) = 6 + LengthOf(response)

\* the responses to the reads of 125 registers and of 2000 coils
C27_Witness ==
    /\ hpc = "replied"
    /\ FunctionOf(requests[1]) = 3
    /\ FunctionOf(response) = 3
    /\ TxnOf(response) = U16 - 1
    /\ LengthOf(response) = 253
    /\ Len(response) = 259

C27_WitnessBits ==
    /\ hpc = "replied"
    /\ FunctionOf(response) = 1
    /\ LengthOf(response) = 253
    /\ Len(response) = 259


(***************************************************************************)
(* ModbusRequest::parse (modbus_protocol.rs:127-160) on byte strings       *)
(***************************************************************************)
\* the byte strings given to parse: the first n bytes of a header with the
\* protocol id and the length field drawn, a function code and four bytes
ParseInputs ==
    { SubSeq(to_be_bytes(513) \o to_be_bytes(proto) \o to_be_bytes(length)
               \o << 17, 3, 10, 20, 30, 40 >>, 1, n) :
        proto \in {0, 1, 256}, length \in {0, 1, 2, 3, 5, 6, 7, 256},
        n \in 0 .. 12 }

InitParse ==
    /\ StoreInit
    /\ overflow_checks \in BOOLEAN
    /\ \E bytes \in ParseInputs :
         last = [NoCall EXCEPT !.op = "frame", !.values = bytes]
    /\ nloads = 0
    /\ nops = 0
    /\ ServerIdle
    /\ LogIdle
    /\ ConnIdle
    /\ ConcIdle

\* `match ModbusRequest::parse(&frame_data)` (server.rs:336): the header
\* of the result in vs, its function code in start, its data in data
ParseFrame ==
    /\ last.op = "frame"
    /\ LET r == ModbusRequest_parse(last.values)
       IN  last' = [last EXCEPT !.op = "parse", !.result = r.result,
                                !.vs = << r.header >>,
                                !.start = r.function_code,
                                !.data = r.data]
    /\ PackStep

NextParse == ParseFrame

SpecParse == InitParse /\ [][NextParse]_vars

\* C28: ModbusRequest::parse(data) fails exactly when |data| < 7, or
\* |data| < 6 + length, or proto_id != 0; in every other case it succeeds
\* and returns the header, the function code, and as data exactly the bytes
\* after the function code up to offset 6 + length.
C28_ParseContract ==
    last.op = "parse" =>
      LET data == last.values
          proto_id == from_be_bytes(data[3], data[4])
          length == from_be_bytes(data[5], data[6])
      IN  IF \/ Len(data) < 7
             \/ Len(data) < 6 + length
             \/ proto_id # 0
          THEN last.result = "Err"
          ELSE /\ last.result = "Ok"
               /\ last.vs = << [transaction_id |->
                                   from_be_bytes(data[1], data[2]),
                                protocol_id |-> 0,
                                length |-> length,
                                unit_id |-> data[7]] >>
               /\ last.start = data[8]
               /\ last.data = SubSeq(data, 9, 6 + length)


(***************************************************************************)
(* Register writes of the master on a catalog of one or two holding        *)
(* register variables (data_store.rs:401-455, 480-534)                     *)
(***************************************************************************)
WordValues ==
    { <<"Uint16", Number(4660)>>, <<"Uint32", Number(65538)>>,
      <<"Float32", Number(1)>> }

WordCatalogs ==
    { << Variable("v1", "HoldingRegister", a, tv) >> :
        a \in VarAddrs, tv \in WordValues }
    \cup { << Variable("v1", "HoldingRegister", a, tv),
              Variable("v2", "HoldingRegister", b,
                       << "Uint16", Number(4660) >>) >> :
             a \in VarAddrs, b \in VarAddrs, tv \in WordValues }

InitWords ==
    /\ overflow_checks \in BOOLEAN
    /\ \E vs \in WordCatalogs :
         SetStoreTo(load_variables(NewStore, vs, overflow_checks).st)
    /\ CallIdle
    /\ ServerIdle
    /\ LogIdle
    /\ ConnIdle
    /\ ConcIdle

NextWords == WriteSingleRegister \/ WriteMultipleRegisters

SpecWords == InitWords /\ [][NextWords]_vars

\* a variable of the catalog starts at the holding register
StartsAt(address) ==
    \E id \in DOMAIN variables :
       /\ variables[id].area = "HoldingRegister"
       /\ variables[id].address = address

\* the step is a successful write of the master that covers the address
WritesOver(address) ==
    /\ nops' # nops
    /\ last'.op \in {"write_single_register", "write_multiple_registers"}
    /\ last'.result = "Ok"
    /\ last'.start <= address
    /\ address < last'.start + last'.count

\* the value of a 32-bit variable read from two cells, high word first
DecodedWords(data_type, high, low) ==
    IF data_type = "Uint32" THEN NumberWords(high, low)
    ELSE F32FromBits(high, low)

C29_Step ==
    \A id \in DOMAIN variables :
       LET v == variables[id]
           a == v.address
       IN  (v.area = "HoldingRegister" /\ Wide(v)) =>
             /\ (/\ WritesOver(a + 1)
                 /\ last'.op = "write_single_register"
                 /\ ~ StartsAt(a + 1))
                => /\ holding_registers'[a + 1] = last'.values[1]
                   /\ variables' = variables
             /\ WritesOver(a)
                => /\ id \in DOMAIN variables'
                   /\ variables'[id] =
                        [v EXCEPT !.value =
                           DecodedWords(v.data_type, holding_registers'[a],
                                        holding_registers'[a + 1])]

\* C29: when a 32-bit variable v sits at holding-register address a and no
\* variable starts at a + 1, a successful write_single_register(a + 1, x)
\* changes cell a + 1 but leaves v.value in the catalog unchanged; a write
\* that includes address a re-syncs v from both cells.
C29_LowWordWrite == [][C29_Step]_vars

\* the low word of v1 = 65538 at holding register 0 was overwritten
C29_Witness ==
    /\ last.op = "write_single_register"
    /\ last.result = "Ok"
    /\ last.start = 1
    /\ last.values = << 65534 >>
    /\ DOMAIN variables = {"v1"}
    /\ variables["v1"].address = 0
    /\ variables["v1"].data_type = "Uint32"
    /\ variables["v1"].value = Number(65538)
    /\ holding_registers[0] = 1
    /\ holding_registers[1] = 65534


(***************************************************************************)
(* A second load_variables on a loaded store, then a read                  *)
(* (data_store.rs:76-113, 163-196)                                         *)
(***************************************************************************)
\* load_variables with an empty list or with one variable
Reload ==
    /\ nloads < MaxLoads
    /\ nops = 0
    /\ \E vs \in LoadedOnce \cup { << >> } :
         LET r == load_variables(Store, vs, overflow_checks)
         IN  /\ SetStore(r.st)
             /\ last' = [NoCall EXCEPT !.op = "load_variables", !.vs = vs,
                                       !.result = r.result]
    /\ nloads' = nloads + 1
    /\ UNCHANGED << nops, overflow_checks, connVars, concVars, serverVars, logVars >>

NextReload == Reload \/ Read

SpecReload == InitLoaded /\ [][NextReload]_vars

\* the bank of an area
BankOf(area) ==
    CASE area = "Coil" -> coils
      [] area = "DiscreteInput" -> discrete_inputs
      [] area = "InputRegister" -> input_registers
      [] OTHER -> holding_registers

\* the cells of the area's bank that the variables of the list cover
CoveredBy(vs, area) ==
    UNION { IF vs[i].area # area THEN {}
            ELSE IF area \in RegisterAreas
                      /\ vs[i].data_type \in {"Uint32", "Float32"}
                 THEN {vs[i].address, vs[i].address + 1} \cap 0 .. U16 - 1
                 ELSE {vs[i].address} :
            i \in DOMAIN vs }

C30_Step ==
    /\ (nloads' # nloads) =>
         \A area \in Areas :
            \A a \in CellAddrs \ CoveredBy(last'.vs, area) :
               BankOf(area)'[a] = BankOf(area)[a]
    /\ (last.op = "load_variables" /\ nops' # nops /\ last'.op = "read"
          /\ \E a \in last'.start .. last'.start + last'.count - 1 :
                a \notin CoveredBy(last.vs, last'.area))
       => last'.result = "IllegalDataAddress"

\* C30: load_variables(V) changes only the bank cells covered by variables
\* of V; every other bank cell, the cells of previously defined addresses
\* included, keeps its value, and such a cell is not readable through the
\* protocol until a later load defines its address again.
C30_LoadFrame == [][C30_Step]_vars



(***************************************************************************)
(* Telemetry of the connection handler (server.rs:348-386): the handler    *)
(* of a server that has an app handle.                                     *)
(***************************************************************************)
InitTelemetry ==
    /\ SetStoreTo(load_variables(NewStore, ConnCatalog, FALSE).st)
    /\ overflow_checks \in BOOLEAN
    /\ CallIdle
    /\ ServerIdle
    /\ ConnLog(TRUE)
    /\ unit_id = 1
    /\ requests \in RequestLists
    /\ wire = Concat(requests)
    /\ frame_buffer = << >>
    /\ hpc = "select"
    /\ response = << >>
    /\ sent = << >>
    /\ ndrained = 0
    /\ ConcIdle

SpecTelemetry == InitTelemetry /\ [][NextConn]_vars

\* the step takes a frame that parses from the buffer
ParsedStep == DrainStep /\ ModbusRequest_parse(frame_data).result = "Ok"

\* the entries the step has emitted
Emitted == SubSeq(log', Len(log) + 1, Len(log'))

\* the function byte of the outgoing frame has bit 0x80 set
ErrorBit(frame) == (frame[8] \div 128) % 2 = 1

\* C31: with an app handle set, a frame that passes the unit-id filter emits
\* exactly one Request entry followed by exactly one entry that is Error if
\* the function byte of the outgoing frame has bit 0x80 set and Response
\* otherwise, both before the response bytes are written; a frame dropped
\* by the filter emits no entry
C31_Step ==
    (app_handle /\ ParsedStep) =>
       IF Filtered(ModbusRequest_parse(frame_data), unit_id)
       THEN Emitted = << >>
       ELSE /\ Len(Emitted) = 2
            /\ Emitted[1].entry_type = "Request"
            /\ Emitted[2].entry_type =
                 IF ErrorBit(response') THEN "Error" ELSE "Response"
            /\ sent' = sent

C31_TelemetryPairing == [][C31_Step]_vars

\* the same in a build without overflow checks
C31_ReleaseStep == ~ overflow_checks => C31_Step
C31_Release == [][C31_ReleaseStep]_vars



(***************************************************************************)
(* Log entry ids (server.rs:124-159, 188-228, 284, 316-395).  The server   *)
(* object draws ids from self.log_id_counter; start() gives the accept     *)
(* loop `Arc::new(AtomicU64::new(self.log_id_counter.load(..)))`, a new    *)
(* counter that starts at the server's value, and the loop hands clones of *)
(* that Arc to its handlers.  Each action below is one fetch_add with the  *)
(* emit that follows it in the same task; accept[g] and handlers[h] keep   *)
(* only what the telemetry reads: whether the task runs, the app handle    *)
(* the loop captured (server.rs:196) and the loop a handler belongs to.    *)
(***************************************************************************)
\* the largest id a counter hands out in the model
MaxLogId == 5

\* connections accepted over a run
MaxLogClients == 2

InitLog ==
    /\ StoreInit
    /\ overflow_checks = FALSE
    /\ CallIdle
    /\ ConnIdle
    /\ ConcIdle
    /\ server = NewServer
    /\ control = NoControl
    /\ accept = << >>
    /\ handlers = << >>
    /\ LogIdle

LogStep ==
    UNCHANGED << storeVars, overflow_checks, callVars, connVars, concVars,
                 control >>

\* counter c hands out its value and steps (fetch_add(1, SeqCst)); the entry
\* reaches the UI when `handle` is set
LogWith(c, handle, entry_type, client_addr) ==
    /\ log_id_counter[c] <= MaxLogId
    /\ log' = emit_log_entry(log, handle,
                LogEntry_new(log_id_counter[c], entry_type, client_addr))

\* ModbusServer::log_info (server.rs:138-147)
log_info(client_addr) == LogWith(0, app_handle, "Info", client_addr)

\* set_app_handle (server.rs:91-93)
SetAppHandle ==
    /\ ~ app_handle
    /\ app_handle' = TRUE
    /\ UNCHANGED << server, accept, handlers, log_id_counter, log >>
    /\ LogStep

\* start() returns Ok (server.rs:162-264): the listener is free, the start
\* is logged with the server's counter, the accept loop gets the app handle
\* and a new counter that starts at the server's value
LogStart ==
    /\ ~ is_running(server)
    /\ Len(accept) < MaxStarts
    /\ \A g \in 1 .. Len(accept) : accept[g].pc = "exited"
    /\ server' = [server EXCEPT !.running = TRUE,
                                !.shutdown_tx = Len(accept) + 1,
                                !.last_error = "None"]
    /\ log_info("SERVER")
    /\ log_id_counter' =
         [g \in 0 .. Len(accept) + 1 |->
            IF g \in {0, Len(accept) + 1} THEN log_id_counter[0] + 1
            ELSE log_id_counter[g]]
    /\ accept' = Append(accept, [pc |-> "running", app_handle |-> app_handle])
    /\ UNCHANGED << handlers, app_handle >>
    /\ LogStep

\* stop() returns Ok (server.rs:266-289): the signal is sent, the stop is
\* logged with the server's counter
LogStop ==
    /\ is_running(server)
    /\ server' = [server EXCEPT !.running = FALSE, !.shutdown_tx = 0,
                                !.connections_count = 0]
    /\ log_info("SERVER")
    /\ log_id_counter' = [log_id_counter EXCEPT ![0] = @ + 1]
    /\ accept' = [g \in 1 .. Len(accept) |->
                    IF accept[g].pc = "running"
                    THEN [accept[g] EXCEPT !.pc = "signalled"]
                    ELSE accept[g]]
    /\ UNCHANGED << handlers, app_handle >>
    /\ LogStep

\* the accept loop takes a connection (server.rs:207-246): with an app
\* handle it logs the client with its counter, then spawns the handler
LogAccept(g) ==
    /\ accept[g].pc # "exited"
    /\ Len(handlers) < MaxLogClients
    /\ IF accept[g].app_handle
       THEN /\ LogWith(g, TRUE, "Info", "client")
            /\ log_id_counter' = [log_id_counter EXCEPT ![g] = @ + 1]
       ELSE UNCHANGED << log, log_id_counter >>
    /\ handlers' = Append(handlers, [tx |-> g, pc |-> "running"])
    /\ UNCHANGED << server, accept, app_handle >>
    /\ LogStep

\* the accept loop receives the shutdown signal and ends (server.rs:250-257)
LogAcceptShutdown(g) ==
    /\ accept[g].pc = "signalled"
    /\ accept' = [accept EXCEPT ![g].pc = "exited"]
    /\ UNCHANGED << server, handlers, logVars >>
    /\ LogStep

\* the handler answers a frame (server.rs:348-381): two ids from the
\* counter of its accept loop
LogRequest(h) ==
    /\ handlers[h].pc = "running"
    /\ LET g == handlers[h].tx
           c == log_id_counter[g]
       IN  /\ c + 1 <= MaxLogId
           /\ log' = IF accept[g].app_handle
                     THEN log \o << LogEntry_new(c, "Request", "client"),
                                    LogEntry_new(c + 1, "Response", "client") >>
                     ELSE log
           /\ log_id_counter' = [log_id_counter EXCEPT ![g] = @ + 2]
    /\ UNCHANGED << server, accept, handlers, app_handle >>
    /\ LogStep

\* the client closes (server.rs:316-325): one id, and the handler ends
LogEof(h) ==
    /\ handlers[h].pc = "running"
    /\ LogWith(handlers[h].tx, accept[handlers[h].tx].app_handle,
               "Info", "client")
    /\ log_id_counter' = [log_id_counter EXCEPT ![handlers[h].tx] = @ + 1]
    /\ handlers' = [handlers EXCEPT ![h].pc = "exited"]
    /\ UNCHANGED << server, accept, app_handle >>
    /\ LogStep

\* the handler receives the shutdown signal and ends (server.rs:414-418)
LogHandlerShutdown(h) ==
    /\ handlers[h].pc = "running"
    /\ accept[handlers[h].tx].pc # "running"
    /\ handlers' = [handlers EXCEPT ![h].pc = "exited"]
    /\ UNCHANGED << server, accept, logVars >>
    /\ LogStep

NextLog ==
    \/ SetAppHandle
    \/ LogStart
    \/ LogStop
    \/ \E g \in 1 .. Len(accept) : LogAccept(g)
    \/ \E g \in 1 .. Len(accept) : LogAcceptShutdown(g)
    \/ \E h \in 1 .. Len(handlers) : LogRequest(h)
    \/ \E h \in 1 .. Len(handlers) : LogEof(h)
    \/ \E h \in 1 .. Len(handlers) : LogHandlerShutdown(h)

SpecLog == InitLog /\ [][NextLog]_vars

\* C32: no two emitted entries carry the same id, and an entry emitted
\* later carries a larger id than every entry emitted earlier
C32_LogIds ==
    \A i, j \in 1 .. Len(log) : i < j => log[i].id < log[j].id

\* the ids of the entries one counter produced increase
C32_PerSource ==
    \A i, j \in 1 .. Len(log) :
       (i < j /\ log[i].client_addr = "SERVER" /\ log[j].client_addr = "SERVER")
          => log[i].id < log[j].id



(***************************************************************************)
(* The reassembly buffer (server.rs:326-411): frames longer than           *)
(* 2 x MAX_FRAME_SIZE.  The client sends one frame whose header announces  *)
(* more than 520 bytes: the whole frame, a read request followed by        *)
(* padding, for this unit or for another one, or only the first bytes of   *)
(* a frame that announces still more.                                      *)
(***************************************************************************)
\* padding after the four bytes of the read request: the frame is
\* 8 + 4 + LongPad bytes long
LongPad == 509

Zeros(n) == [i \in 1 .. n |-> 0]

\* read holding register 0, count 1, then padding; unit id 1
LongFrame == Encode(513, 0, 1, 3, << 0, 0, 0, 1 >> \o Zeros(LongPad))

\* the same frame for unit 7
OtherFrame == Encode(513, 0, 7, 3, << 0, 0, 0, 1 >> \o Zeros(LongPad))

\* bytes the client sends of a frame that announces CutShort more
CutShort == 20
CutFrame ==
    SubSeq(Encode(513, 0, 1, 3, Zeros(LongPad + CutShort + 8)), 1,
           Len(LongFrame) + 10)

InitLong ==
    /\ SetStoreTo(load_variables(NewStore, ConnCatalog, FALSE).st)
    /\ overflow_checks \in BOOLEAN
    /\ CallIdle
    /\ ServerIdle
    /\ ConnLog(FALSE)
    /\ unit_id = 1
    /\ requests \in { << LongFrame >>, << OtherFrame >>, << CutFrame >> }
    /\ wire = Concat(requests)
    /\ frame_buffer = << >>
    /\ hpc = "select"
    /\ response = << >>
    /\ sent = << >>
    /\ ndrained = 0
    /\ ConcIdle

SpecLong == InitLong /\ [][NextConn]_vars

\* the handler has finished the chunk it received
ChunkDone == hpc \in {"select", "done"}

\* the reassembly buffer holds at most 2 x MAX_FRAME_SIZE bytes
C33_Bound == ChunkDone => Len(frame_buffer) <= MAX_FRAME_SIZE * 2

\* a dispatched frame is at most 2 x MAX_FRAME_SIZE bytes long
C33_Step ==
    (ParsedStep /\ ~ Filtered(ModbusRequest_parse(frame_data), unit_id))
       => Len(frame_data) <= MAX_FRAME_SIZE * 2

\* C33: after the handler has processed a received chunk the reassembly
\* buffer holds at most 520 bytes, and a header announcing a longer frame
\* never yields a dispatched request
C33_ReassemblyBound == [] C33_Bound /\ [][C33_Step]_vars

\* the guard has cleared a buffer of more than 520 bytes
C33_Cleared ==
    /\ hpc = "select"
    /\ frame_buffer = << >>
    /\ ndrained = 0
    /\ Len(wire) < Len(CutFrame) - MAX_FRAME_SIZE * 2
    /\ Len(wire) > 0
    /\ requests = << CutFrame >>



(***************************************************************************)
(* Locks held when the variable sync asks for the catalog                  *)
(* (data_store.rs:289-309, 343, 401-421, 480-487)                          *)
(***************************************************************************)
BankLocks == {"coils", "discrete_inputs", "input_registers",
              "holding_registers"}

\* the bank locks thread t holds, exclusively or shared
HeldShared(t) == { l \in BankLocks : t \in locks[l].readers }
HeldExclusive(t) == { l \in BankLocks : locks[l].writer = t }

\* thread t is at `self.variables.write()` of the sync that follows its
\* bank write: data_store.rs:487 for a register, data_store.rs:343 for a coil
RequestsCatalog(t) ==
    \/ t = "writer" /\ threads[t].pc = "sync_vars"
    \/ /\ t \in CoilThreads
       /\ threads[t].pc = "sync"
       /\ threads[t].i < Len(threads[t].values)

\* C34: in the variable-sync step that follows a protocol bank write, the
\* thread holds no lock on any bank, neither exclusive nor shared, at the
\* moment it requests the catalog's exclusive lock
C34_NoBankLock ==
    \A t \in DOMAIN threads :
       RequestsCatalog(t) => HeldShared(t) \cup HeldExclusive(t) = {}

\* C34 as the code has it: the thread holds no exclusive lock on any bank;
\* after a register write it holds the shared lock of the register bank,
\* which sync_variable_from_register takes before it asks for the catalog,
\* and after a coil write it holds no bank lock
C34_SharedOnly ==
    \A t \in DOMAIN threads :
       RequestsCatalog(t) =>
          /\ HeldExclusive(t) = {}
          /\ HeldShared(t) = IF t = "writer" THEN {"holding_registers"}
                             ELSE {}

\* the register writer waits for the catalog, which the updater holds,
\* while a coil writer is about to ask for it
C34_Witness ==
    /\ RequestsCatalog("writer")
    /\ RequestsCatalog("coiler")
    /\ locks["variables"].writer = "updater"



(***************************************************************************)
(* clear (data_store.rs:537-583) as thread "clearer": nine blocks, each    *)
(* takes one lock exclusively and drops it at the end of the block.        *)
(***************************************************************************)
\* the banks in the order clear() resets them
ClearBanks == << "coils", "discrete_inputs", "input_registers",
                "holding_registers" >>

\* `for c in coils.iter_mut() { *c = false; }` and the three loops after it
\* (data_store.rs:538-561)
ClearBank ==
    /\ threads["clearer"].pc = "start"
    /\ LET bank == ClearBanks[threads["clearer"].i + 1]
       IN  /\ CanWrite(bank)
           /\ SetStore([Store EXCEPT ![bank] = NewStore[bank]])
           /\ hr_versions' =
                IF bank = "holding_registers"
                THEN hr_versions \cup {NewStore.holding_registers}
                ELSE hr_versions
    /\ threads' =
         [threads EXCEPT
            !["clearer"].pc = IF threads["clearer"].i + 1 < Len(ClearBanks)
                              THEN "start" ELSE "variables",
            !["clearer"].i = IF @ + 1 < Len(ClearBanks) THEN @ + 1 ELSE 0]
    /\ UNCHANGED locks
    /\ ConcStep

\* `vars.clear();` (data_store.rs:562-565)
ClearVariables ==
    /\ threads["clearer"].pc = "variables"
    /\ CanWrite("variables")
    /\ variables' = << >>
    /\ threads' = [threads EXCEPT !["clearer"].pc = "defined",
                                  !["clearer"].i = 1]
    /\ BanksUnchanged
    /\ DefinedUnchanged
    /\ UNCHANGED << locks, hr_versions >>
    /\ ConcStep

\* `defined.clear();` on the four defined-sets in turn (data_store.rs:567-582)
ClearDefined ==
    /\ threads["clearer"].pc = "defined"
    /\ CanWrite(DefinedSets[threads["clearer"].i])
    /\ SetStore([Store EXCEPT ![DefinedSets[threads["clearer"].i]] = {}])
    /\ threads' =
         [threads EXCEPT
            !["clearer"].pc = IF threads["clearer"].i < Len(DefinedSets)
                              THEN "defined" ELSE "done",
            !["clearer"].result = IF threads["clearer"].i < Len(DefinedSets)
                                  THEN @ ELSE "Ok",
            !["clearer"].i = @ + 1]
    /\ UNCHANGED << locks, hr_versions >>
    /\ ConcStep

(***************************************************************************)
(* load_variables, update_variable, get_variables, clear, a protocol read  *)
(* and a protocol write, each on a thread of its own, on one store         *)
(***************************************************************************)
LockThreads == {"loader", "clearer", "getter", "reader", "writer", "updater"}

\* the catalog the store holds, and the catalog the loader loads
LocksCatalog ==
    << Variable("v1", "HoldingRegister", 0, << "Uint16", Number(1) >>) >>
LocksLoaded ==
    << Variable("v1", "HoldingRegister", 0, << "Uint16", Number(4660) >>) >>

\* the call of thread t
LockCall(t, start) ==
    CASE t = "loader" ->
           [NoThread EXCEPT !.op = "load_variables", !.pc = "start",
                            !.values = LocksLoaded]
      [] t = "clearer" -> [NoThread EXCEPT !.op = "clear", !.pc = "start"]
      [] t = "getter" -> [NoThread EXCEPT !.op = "get_variables",
                                          !.pc = "start"]
      [] t = "reader" ->
           [NoThread EXCEPT !.op = "read_holding_registers", !.pc = "start",
                            !.start = start, !.count = 1]
      [] t = "writer" ->
           [NoThread EXCEPT !.op = "write_single_register", !.pc = "start",
                            !.start = 0, !.values = << 7 >>, !.count = 1]
      [] OTHER ->
           [NoThread EXCEPT !.op = "update_variable", !.pc = "start",
                            !.id = "v1", !.value = Number(5)]

InitLocks ==
    /\ SetStoreTo(load_variables(NewStore, LocksCatalog, FALSE).st)
    /\ overflow_checks \in BOOLEAN
    /\ CallIdle
    /\ ServerIdle
    /\ LogIdle
    /\ ConnIdle
    /\ threads = [t \in LockThreads |-> LockCall(t, U16 - 1)]
    /\ locks = [l \in LockNames |-> Unlocked]
    /\ hr_versions = {holding_registers}

NextLocks ==
    \/ LoadClearVariables
    \/ LoadClearDefined
    \/ LoadInsert
    \/ LoadMark
    \/ LoadWrite
    \/ ClearBank
    \/ ClearVariables
    \/ ClearDefined
    \/ GetVariablesCall
    \/ \E t \in {"reader", "writer"} : LockDefined(t)
    \/ \E t \in {"reader", "writer"} : CheckDefined(t)
    \/ ReadLock
    \/ ReadBounds
    \/ ReadWord
    \/ ReadReturn
    \/ WriteLock
    \/ WriteBounds
    \/ WriteWord
    \/ WriteDrop
    \/ SyncLockBank
    \/ SyncLockVars
    \/ SyncApply
    \/ WriteReturn
    \/ UpdateLock
    \/ UpdateMissing
    \/ UpdateSet
    \/ UpdateLockBank
    \/ UpdateWord
    \/ UpdateReturn

SpecLocks == InitLocks /\ [][NextLocks]_vars



\* how far a thread is in its call: the block it is in, the turn of the
\* loop it is in and the step of that turn
Phase(pc) ==
    CASE pc = "start" -> 0
      [] pc \in {"check", "get", "clear", "variables"} -> 1
      [] pc \in {"lock_bank", "write_value", "defined"} -> 2
      [] pc \in {"bounds", "insert", "mark", "write"} -> 3
      [] pc = "words" -> 4
      [] pc \in {"sync", "sync_vars", "sync_apply"} -> 5
      [] OTHER -> 9

TurnStep(pc) ==
    CASE pc \in {"mark", "sync_vars"} -> 1
      [] pc \in {"write", "sync_apply"} -> 2
      [] OTHER -> 0

ProgressOf(t) ==
    Phase(threads[t].pc) * 100 + threads[t].i * 10 + TurnStep(threads[t].pc)

\* the progress of the six threads together
Progress ==
    ProgressOf("loader") + ProgressOf("clearer") + ProgressOf("getter")
      + ProgressOf("reader") + ProgressOf("writer") + ProgressOf("updater")

\* the lock the next step of thread t asks for, and how: << >> when the
\* step takes no lock
Request(t) ==
    LET th == threads[t]
    IN  CASE th.op = "load_variables" ->
               (CASE th.pc \in {"start", "insert"} -> << "variables", "write" >>
                  [] th.pc = "clear" -> << DefinedSets[th.i], "write" >>
                  [] th.pc = "mark" ->
                       << DefinedLock(LoaderVar.area), "write" >>
                  [] th.pc = "write" -> << BankLock(LoaderVar.area), "write" >>
                  [] OTHER -> << >>)
          [] th.op = "clear" ->
               (CASE th.pc = "start" -> << ClearBanks[th.i + 1], "write" >>
                  [] th.pc = "variables" -> << "variables", "write" >>
                  [] th.pc = "defined" -> << DefinedSets[th.i], "write" >>
                  [] OTHER -> << >>)
          [] th.op = "get_variables" ->
               IF th.pc = "start" THEN << "variables", "read" >> ELSE << >>
          [] th.op = "update_variable" ->
               (CASE th.pc = "start" -> << "variables", "write" >>
                  [] th.pc = "write_value" ->
                       << BankLock(var_clone.area), "write" >>
                  [] OTHER -> << >>)
          [] th.op = "read_holding_registers" ->
               (CASE th.pc = "start" -> << "defined_holding_registers", "read" >>
                  [] th.pc = "lock_bank" -> << "holding_registers", "read" >>
                  [] OTHER -> << >>)
          [] OTHER ->
               (CASE th.pc = "start" -> << "defined_holding_registers", "read" >>
                  [] th.pc = "lock_bank" -> << "holding_registers", "write" >>
                  [] th.pc = "sync" /\ th.i < Len(th.values) ->
                       << "holding_registers", "read" >>
                  [] th.pc = "sync_vars" -> << "variables", "write" >>
                  [] OTHER -> << >>)

\* thread t waits for a lock another thread holds
Waiting(t) ==
    /\ threads[t].pc \notin {"done", "panicked"}
    /\ Request(t) # << >>
    /\ IF Request(t)[2] = "read" THEN ~ CanRead(Request(t)[1])
       ELSE ~ CanWrite(Request(t)[1])

\* some call is in flight and every thread that has not returned waits
Stuck ==
    /\ ~ AtRest
    /\ \A t \in DOMAIN threads :
         threads[t].pc \in {"done", "panicked"} \/ Waiting(t)

\* C35: under any interleaving of load_variables, update_variable,
\* get_variables, clear, a protocol read and a protocol write on threads of
\* their own, no state is reachable in which threads wait for each other's
\* locks forever, and every started operation completes: while a call is
\* in flight some thread can take a step, and every step brings a thread
\* nearer to the end of its call
C35_DeadlockFree == [] ~ Stuck /\ [][Progress' > Progress]_vars

\* the three-thread queue the nested lock of the register sync allows:
\* clear() waits for the register bank, which the writer holds shared while
\* it waits for the catalog, which update_variable holds
C35_Witness ==
    /\ threads["clearer"].pc = "start"
    /\ ClearBanks[threads["clearer"].i + 1] = "holding_registers"
    /\ threads["writer"].pc = "sync_vars"
    /\ "writer" \in locks["holding_registers"].readers
    /\ locks["variables"].writer = "updater"
    /\ Waiting("clearer")
    /\ Waiting("writer")

\* every call has returned or unwound
C35_Done == AtRest /\ threads["writer"].result = "Ok"



(***************************************************************************)
(* Protocol writes next to clear() and load_variables(): a register        *)
(* writer, a coil writer, clear() and, in half of the runs, a load, each   *)
(* on a thread of its own                                                  *)
(***************************************************************************)
RaceThreads == {"writer", "coiler", "clearer", "loader"}

RaceCall(t, loads) ==
    CASE t = "writer" ->
           [NoThread EXCEPT !.op = "write_single_register", !.pc = "start",
                            !.start = 0, !.values = << 7 >>, !.count = 1]
      [] t = "coiler" ->
           [NoThread EXCEPT !.op = "write_single_coil", !.pc = "start",
                            !.start = 0, !.values = << TRUE >>, !.count = 1]
      [] t = "clearer" -> [NoThread EXCEPT !.op = "clear", !.pc = "start"]
      [] OTHER ->
           IF loads
           THEN [NoThread EXCEPT !.op = "load_variables", !.pc = "start",
                                 !.values = SyncCatalog]
           ELSE NoThread

InitRace ==
    /\ SetStoreTo(load_variables(NewStore, SyncCatalog, FALSE).st)
    /\ overflow_checks \in BOOLEAN
    /\ CallIdle
    /\ ServerIdle
    /\ LogIdle
    /\ ConnIdle
    /\ \E loads \in BOOLEAN :
         threads = [t \in RaceThreads |-> RaceCall(t, loads)]
    /\ locks = [l \in LockNames |-> Unlocked]
    /\ hr_versions = {holding_registers}

NextRace ==
    \/ CoilLockDefined("coiler")
    \/ CoilCheck("coiler")
    \/ CoilLock("coiler")
    \/ CoilBounds("coiler")
    \/ CoilWord("coiler")
    \/ CoilDrop("coiler")
    \/ CoilSyncLock("coiler")
    \/ CoilSyncApply("coiler")
    \/ CoilReturn("coiler")
    \/ LockDefined("writer")
    \/ CheckDefined("writer")
    \/ WriteLock
    \/ WriteBounds
    \/ WriteWord
    \/ WriteDrop
    \/ SyncLockBank
    \/ SyncLockVars
    \/ SyncApply
    \/ WriteReturn
    \/ ClearBank
    \/ ClearVariables
    \/ ClearDefined
    \/ LoadClearVariables
    \/ LoadClearDefined
    \/ LoadInsert
    \/ LoadMark
    \/ LoadWrite

SpecRace == InitRace /\ [][NextRace]_vars

\* the step is thread t storing a word or a bit into its bank
\* (data_store.rs:305, 417)
Stores(t) ==
    /\ threads[t].pc = "words"
    /\ threads'[t].i = threads[t].i + 1

\* a protocol write stores only into a cell whose address is in the
\* defined-set of its area at that moment
C37_Step ==
    /\ Stores("writer") =>
         threads["writer"].start + threads["writer"].i
            \in defined_holding_registers
    /\ Stores("coiler") =>
         threads["coiler"].start + threads["coiler"].i \in defined_coils

\* every cell of the four banks is 0 / false
AllZero ==
    \A a \in CellAddrs :
       /\ ~ coils[a]
       /\ ~ discrete_inputs[a]
       /\ input_registers[a] = 0
       /\ holding_registers[a] = 0

\* clear() and the protocol writes that overlapped it have finished, and
\* nothing was loaded
C37_Zero == (AtRest /\ threads["loader"].op = "none") => AllZero

\* C37: under any interleaving of protocol writes with clear() and
\* load_variables(), a protocol write never modifies a bank cell at a
\* moment when the cell's address is not in the defined-set of its area;
\* once clear() and every operation that overlapped it have finished, all
\* bank cells are zero
C37_WritesDefinedOnly == [][C37_Step]_vars /\ [] C37_Zero



(***************************************************************************)
(* start() and stop() called concurrently (server.rs:162-203, 266-289):    *)
(* two callers, each in a call of its own; control[c] is the call of       *)
(* caller c.  A start() that has bound the listener holds it until it      *)
(* hands it to the accept task it spawns.                                  *)
(***************************************************************************)
Callers == {1, 2}

\* the statements of start() after a successful bind
Bound == {"channel", "clear_error", "mark", "spawn"}

\* the configured address is bound: by an accept task, or by a start()
\* between its bind and its spawn
AddressInUse ==
    \/ ListenerHeld
    \/ \E c \in Callers : control[c].pc \in Bound

CallerReturned(c) == control[c].pc \in {"idle", "done"}

InitStarts ==
    /\ StoreInit
    /\ overflow_checks = FALSE
    /\ CallIdle
    /\ ConnIdle
    /\ ConcIdle
    /\ server = NewServer
    /\ control = [c \in Callers |-> NoControl]
    /\ accept = << >>
    /\ handlers = << >>
    /\ LogIdle

\* start(): `if self.running.load(..) { return Err(..) }` (server.rs:163-165)
TwoStartCheck(c) ==
    /\ CallerReturned(c)
    /\ control' =
         [control EXCEPT
            ![c] = IF is_running(server)
                   THEN [Call("start") EXCEPT !.pc = "done",
                                              !.result = "Err(already running)"]
                   ELSE [Call("start") EXCEPT !.pc = "bind"]]
    /\ UNCHANGED << server, accept, handlers >>
    /\ ServerStep

\* `TcpListener::bind(&bind_addr).await.map_err(..)?` (server.rs:171-173)
TwoStartBind(c) ==
    /\ control[c].op = "start"
    /\ control[c].pc = "bind"
    /\ \/ /\ ~ AddressInUse
          /\ Len(accept) < MaxStarts
          /\ control' = [control EXCEPT ![c].pc = "channel"]
       \/ control' = [control EXCEPT ![c].pc = "done",
                                     ![c].result = "Err(bind)"]
    /\ UNCHANGED << server, accept, handlers >>
    /\ ServerStep

\* the channel, last_error and running (server.rs:178-185)
TwoStartChannel(c) ==
    /\ control[c].op = "start"
    /\ control[c].pc = "channel"
    /\ server' = [server EXCEPT !.shutdown_tx = Len(accept) + 1]
    /\ control' = [control EXCEPT ![c].pc = "clear_error"]
    /\ UNCHANGED << accept, handlers >>
    /\ ServerStep

TwoStartClearError(c) ==
    /\ control[c].op = "start"
    /\ control[c].pc = "clear_error"
    /\ server' = [server EXCEPT !.last_error = "None"]
    /\ control' = [control EXCEPT ![c].pc = "mark"]
    /\ UNCHANGED << accept, handlers >>
    /\ ServerStep

TwoStartMark(c) ==
    /\ control[c].op = "start"
    /\ control[c].pc = "mark"
    /\ server' = [server EXCEPT !.running = TRUE]
    /\ control' = [control EXCEPT ![c].pc = "spawn"]
    /\ UNCHANGED << accept, handlers >>
    /\ ServerStep

\* `tokio::spawn(async move { .. }); Ok(())` (server.rs:201-262)
TwoStartSpawn(c) ==
    /\ control[c].op = "start"
    /\ control[c].pc = "spawn"
    /\ accept' = Append(accept, NewAccept)
    /\ control' = [control EXCEPT ![c].pc = "done", ![c].result = "Ok"]
    /\ UNCHANGED << server, handlers >>
    /\ ServerStep

\* stop(): `if !self.running.load(..) { return Err(..) }` (server.rs:267-269)
TwoStopCheck(c) ==
    /\ CallerReturned(c)
    /\ control' =
         [control EXCEPT
            ![c] = IF ~ is_running(server)
                   THEN [Call("stop") EXCEPT !.pc = "done",
                                             !.result = "Err(not running)"]
                   ELSE [Call("stop") EXCEPT !.pc = "send"]]
    /\ UNCHANGED << server, accept, handlers >>
    /\ ServerStep

\* `if let Some(tx) = .. { let _ = tx.send(()); }` (server.rs:272-274)
TwoStopSend(c) ==
    /\ control[c].op = "stop"
    /\ control[c].pc = "send"
    /\ accept' = [g \in 1 .. Len(accept) |->
                    IF g = server.shutdown_tx
                    THEN [accept[g] EXCEPT !.rx = Deliver(@)]
                    ELSE accept[g]]
    /\ control' = [control EXCEPT ![c].pc = "clear",
                                  ![c].tx = server.shutdown_tx]
    /\ UNCHANGED << server, handlers >>
    /\ ServerStep

\* `*self.shutdown_tx.write() = None;` (server.rs:277)
TwoStopClear(c) ==
    /\ control[c].op = "stop"
    /\ control[c].pc = "clear"
    /\ server' = [server EXCEPT !.shutdown_tx = 0]
    /\ control' = [control EXCEPT ![c].pc = "mark"]
    /\ UNCHANGED << accept, handlers >>
    /\ ServerStep

\* `self.running.store(false, ..); self.connections_count.store(0, ..);
\*  .. Ok(())` (server.rs:280-288)
TwoStopMark(c) ==
    /\ control[c].op = "stop"
    /\ control[c].pc = "mark"
    /\ server' = [server EXCEPT !.running = FALSE, !.connections_count = 0]
    /\ control' = [control EXCEPT ![c].pc = "done", ![c].result = "Ok"]
    /\ UNCHANGED << accept, handlers >>
    /\ ServerStep

\* the accept task subscribes and, once the signal has reached it, ends
TwoAccept(g) ==
    /\ \/ /\ accept[g].pc = "spawned"
          /\ accept' = [accept EXCEPT ![g].pc = "select", ![g].rx = "empty"]
       \/ /\ accept[g].pc = "select"
          /\ accept[g].rx = "signal"
          /\ accept' = [accept EXCEPT ![g].pc = "exited", ![g].rx = "none"]
    /\ UNCHANGED << server, control, handlers >>
    /\ ServerStep

NextStarts ==
    \/ \E c \in Callers : TwoStartCheck(c)
    \/ \E c \in Callers : TwoStartBind(c)
    \/ \E c \in Callers : TwoStartChannel(c)
    \/ \E c \in Callers : TwoStartClearError(c)
    \/ \E c \in Callers : TwoStartMark(c)
    \/ \E c \in Callers : TwoStartSpawn(c)
    \/ \E c \in Callers : TwoStopCheck(c)
    \/ \E c \in Callers : TwoStopSend(c)
    \/ \E c \in Callers : TwoStopClear(c)
    \/ \E c \in Callers : TwoStopMark(c)
    \/ \E g \in 1 .. Len(accept) : TwoAccept(g)

SpecStarts == InitStarts /\ [][NextStarts]_vars

\* the accept loops that have not ended
LiveLoops == { g \in 1 .. Len(accept) : accept[g].pc # "exited" }

\* at most one accept loop is live
C36_One == Cardinality(LiveLoops) <= 1

\* a live loop is the loop of the sender the server stores, or the signal
\* sent on its channel is on its way to it
C36_Reachable ==
    \A g \in LiveLoops :
       server.shutdown_tx = g \/ accept[g].rx = "signal"

\* C36: under any interleaving of start() and stop() calls, two concurrent
\* start() calls included, at most one accept loop is live at any time and
\* every live accept loop is reachable by the shutdown sender stored in the
\* server
C36_SingleListener == C36_One /\ C36_Reachable

\* two start() calls have passed the running check together
C36_BothStarting ==
    \A c \in Callers : control[c].op = "start" /\ control[c].pc = "bind"



(***************************************************************************)
(* The commands of the UI (commands.rs:55-93): start_server loads the      *)
(* catalog, sets the app handle and the configuration and then calls       *)
(* start(); stop_server calls stop().  One command runs at a time.  An     *)
(* accept loop keeps the unit id of the configuration it was started with  *)
(* (server.rs:195) and hands it to its handlers (server.rs:226-238).       *)
(***************************************************************************)
\* the profiles start_server is called with
Profiles == [host : {"0.0.0.0"}, port : {502, 1502}, unit_id : {1, 7}]

\* the lists start_server is called with
CommandCatalogs ==
    { << >>,
      << Variable("v1", "HoldingRegister", 0, <<"Uint16", Number(4660)>>) >>,
      << Variable("v1", "DiscreteInput", 1, <<"Bool", Bool(TRUE)>>) >> }

InitCommand ==
    /\ StoreInit
    /\ overflow_checks \in BOOLEAN
    /\ CallIdle
    /\ ConnIdle
    /\ ConcIdle
    /\ server = NewServer
    /\ control = NoControl
    /\ accept = << >>
    /\ handlers = << >>
    /\ LogIdle

CommandStep ==
    UNCHANGED << overflow_checks, callVars, connVars, concVars >>

\* set_config (server.rs:96-101)
set_config(s, profile) ==
    [s EXCEPT !.config = [host |-> profile.host, port |-> profile.port,
                          unit_id |-> profile.unit_id]]

\* a task still holds the listener of the address
InUse(config) ==
    \E g \in 1 .. Len(accept) :
       accept[g].pc # "exited" /\ accept[g].port = config.port

\* the accept task of a started server (server.rs:194-201)
CommandAccept(s) ==
    [pc |-> "running", port |-> s.config.port, unit_id |-> s.config.unit_id,
     app_handle |-> TRUE]

\* start() returns Ok (server.rs:162-264)
Started(s) ==
    /\ server' = [s EXCEPT !.running = TRUE,
                           !.shutdown_tx = Len(accept) + 1,
                           !.last_error = "None"]
    /\ LogWith(0, TRUE, "Info", "SERVER")
    /\ log_id_counter' =
         [g \in 0 .. Len(accept) + 1 |->
            IF g \in {0, Len(accept) + 1} THEN log_id_counter[0] + 1
            ELSE log_id_counter[g]]
    /\ accept' = Append(accept, CommandAccept(s))

\* start() returns Err (server.rs:163-165, 171-173)
NotStarted(s) ==
    /\ server' = s
    /\ UNCHANGED << accept, log, log_id_counter >>

\* start_server (commands.rs:55-83)
StartServer(profile, vs) ==
    /\ SetStore(load_variables(Store, vs, overflow_checks).st)
    /\ app_handle' = TRUE
    /\ LET s == set_config(server, profile)
       IN  \/ /\ is_running(s)
              /\ NotStarted(s)
              /\ control' = [Call("start_server") EXCEPT
                               !.pc = "done",
                               !.result = "Err(already running)"]
           \/ /\ ~ is_running(s)
              /\ NotStarted(s)
              /\ control' = [Call("start_server") EXCEPT
                               !.pc = "done", !.result = "Err(bind)"]
           \/ /\ ~ is_running(s)
              /\ ~ InUse(s.config)
              /\ Len(accept) < MaxStarts
              /\ Started(s)
              /\ control' = [Call("start_server") EXCEPT
                               !.pc = "done", !.result = "Ok",
                               !.status = get_status(server')]
    /\ UNCHANGED handlers
    /\ CommandStep

\* stop_server (commands.rs:86-93)
StopServer ==
    /\ IF is_running(server)
       THEN /\ server' = [server EXCEPT !.running = FALSE,
                                        !.shutdown_tx = 0,
                                        !.connections_count = 0]
            /\ accept' = [g \in 1 .. Len(accept) |->
                            IF g = server.shutdown_tx
                            THEN [accept[g] EXCEPT !.pc = "signalled"]
                            ELSE accept[g]]
            /\ log_info("SERVER")
            /\ log_id_counter' = [log_id_counter EXCEPT ![0] = @ + 1]
            /\ control' = [Call("stop_server") EXCEPT
                             !.pc = "done", !.result = "Ok",
                             !.status = get_status(server')]
       ELSE /\ control' = [Call("stop_server") EXCEPT
                             !.pc = "done", !.result = "Err(not running)"]
            /\ UNCHANGED << server, accept, log, log_id_counter >>
    /\ UNCHANGED << storeVars, handlers, app_handle >>
    /\ CommandStep

\* get_server_status (commands.rs:96-99)
ServerStatus ==
    /\ control' = [Call("get_server_status") EXCEPT
                     !.pc = "done", !.result = "Ok",
                     !.status = get_status(server)]
    /\ UNCHANGED << storeVars, server, accept, handlers, logVars >>
    /\ CommandStep

\* the accept loop takes a connection and spawns its handler with the
\* loop's unit id (server.rs:207-246)
CommandConnect(g) ==
    /\ accept[g].pc = "running"
    /\ Len(handlers) < MaxClients
    /\ LogWith(g, accept[g].app_handle, "Info", "client")
    /\ log_id_counter' = [log_id_counter EXCEPT ![g] = @ + 1]
    /\ handlers' = Append(handlers, [tx |-> g, pc |-> "running",
                                     unit_id |-> accept[g].unit_id])
    /\ UNCHANGED << storeVars, server, control, accept, app_handle >>
    /\ CommandStep

\* the accept loop receives the shutdown signal and ends (server.rs:250-257)
CommandShutdown(g) ==
    /\ accept[g].pc = "signalled"
    /\ accept' = [accept EXCEPT ![g].pc = "exited"]
    /\ UNCHANGED << storeVars, server, control, handlers, logVars >>
    /\ CommandStep

\* the handler receives the shutdown signal and ends (server.rs:414-418)
CommandHandlerShutdown(h) ==
    /\ handlers[h].pc = "running"
    /\ accept[handlers[h].tx].pc # "running"
    /\ handlers' = [handlers EXCEPT ![h].pc = "exited"]
    /\ UNCHANGED << storeVars, server, control, accept, logVars >>
    /\ CommandStep

NextCommand ==
    \/ \E profile \in Profiles, vs \in CommandCatalogs :
          StartServer(profile, vs)
    \/ StopServer
    \/ ServerStatus
    \/ \E g \in 1 .. Len(accept) : CommandConnect(g)
    \/ \E g \in 1 .. Len(accept) : CommandShutdown(g)
    \/ \E h \in 1 .. Len(handlers) : CommandHandlerShutdown(h)

SpecCommand == InitCommand /\ [][NextCommand]_vars

\* a start_server call returns an error in this step
FailedStart ==
    /\ \E profile \in Profiles, vs \in CommandCatalogs :
          StartServer(profile, vs)
    /\ control'.result \in {"Err(already running)", "Err(bind)"}

\* the handlers of a loop that was not told to stop
FilteringHandlers ==
    { h \in 1 .. Len(handlers) :
        handlers[h].pc = "running" /\ accept[handlers[h].tx].pc = "running" }

C38_Step ==
    FailedStart =>
       /\ UNCHANGED storeVars
       /\ server'.config = server.config

C38_Filter ==
    \A h \in FilteringHandlers :
       get_status(server).unit_id = handlers[h].unit_id

\* C38: a start_server call that returns an error (server already running,
\* or bind failure) leaves the catalog, the defined-sets, the bank cells
\* and the configured host, port and unit_id as they were before the call,
\* so the unit id get_status() reports always equals the unit id the live
\* handlers filter on.
C38_FailedStartNoEffect == [][C38_Step]_vars /\ [] C38_Filter



(***************************************************************************)
(* Requests of every function code against a store that holds variables    *)
(* of the two read-only areas, next to the calls of the UI that change     *)
(* the store (server.rs:538-561, data_store.rs:76-113, 247-258, 537-583)   *)
(***************************************************************************)
\* a store with a variable of every area at address 0: the discrete input
\* is set, the input registers 0 and 1 hold 65538
ReadOnlyCatalog ==
    << Variable("v1", "DiscreteInput", 0, << "Bool", Bool(TRUE) >>),
       Variable("v2", "InputRegister", 0, << "Uint32", Number(65538) >>),
       Variable("v3", "HoldingRegister", 0, << "Uint32", Number(65538) >>),
       Variable("v4", "Coil", 0, << "Bool", Bool(FALSE) >>),
       Variable("v5", "Coil", 1, << "Bool", Bool(FALSE) >>) >>

ReadOnlyBodies ==
    { << >> }
    \cup { to_be_bytes(a) \o to_be_bytes(w) :
             a \in {0, U16 - 1}, w \in {0, 1, 2, 65280} }
    \cup { to_be_bytes(a) \o to_be_bytes(m[1]) \o << m[2] >> \o Bytes(m[3], 1) :
             a \in {0, U16 - 1},
             m \in { << 1, 1, 1 >>, << 1, 2, 2 >>, << 2, 1, 1 >>,
                     << 2, 4, 4 >> } }

ReadOnlyFrames ==
    { Encode(513, 0, 1, fc, b) : fc \in DispatchCodes, b \in ReadOnlyBodies }

InitReadOnly ==
    /\ SetStoreTo(load_variables(NewStore, ReadOnlyCatalog, FALSE).st)
    /\ overflow_checks \in BOOLEAN
    /\ CallIdle
    /\ ServerIdle
    /\ LogIdle
    /\ ConcIdle
    /\ unit_id = 1
    /\ \E f \in ReadOnlyFrames : requests = << f >>
    /\ wire = << >>
    /\ frame_buffer = << >>
    /\ hpc = "dispatch"
    /\ response = << >>
    /\ sent = << >>
    /\ ndrained = 0

\* load_variables with a list of the UI
LoadCatalog ==
    /\ nloads < MaxLoads
    /\ \E vs \in CommandCatalogs :
         LET r == load_variables(Store, vs, overflow_checks)
         IN  /\ SetStore(r.st)
             /\ last' = [NoCall EXCEPT !.op = "load_variables", !.vs = vs,
                                       !.result = r.result]
    /\ nloads' = nloads + 1
    /\ UNCHANGED << nops, overflow_checks, connVars, concVars, serverVars,
                    logVars >>

NextReadOnly ==
    \/ ProcessRequest
    \/ LoadCatalog
    \/ UpdateVariable
    \/ Clear

SpecReadOnly == InitReadOnly /\ [][NextReadOnly]_vars

\* the areas a master cannot write
ReadOnlyAreas == {"DiscreteInput", "InputRegister"}

\* the step keeps the cells of the two read-only banks and the catalog
\* values of the variables in them
ReadOnlyKept ==
    /\ discrete_inputs' = discrete_inputs
    /\ input_registers' = input_registers
    /\ \A id \in DOMAIN variables :
          variables[id].area \in ReadOnlyAreas =>
             /\ id \in DOMAIN variables'
             /\ variables'[id] = variables[id]

\* the step is a call of load_variables, update_variable or clear
StoreCall ==
    /\ (nloads' # nloads \/ nops' # nops)
    /\ last'.op \in {"load_variables", "update_variable", "clear"}

C39_Step ==
    /\ Dispatched => ReadOnlyKept
    /\ ~ ReadOnlyKept => StoreCall

\* C39: no request received from a client, with any function code, changes
\* a discrete-input cell, an input-register cell or the catalog value of a
\* variable in those two areas; these change only through load_variables,
\* update_variable and clear.
C39_ReadOnlyBanks == [][C39_Step]_vars

\* a write of 0xFF00 to holding register 0 was applied, and the read-only
\* banks still hold what they were loaded with
C39_Witness ==
    /\ hpc = "replied"
    /\ FunctionOf(requests[1]) = 6
    /\ response = requests[1]
    /\ holding_registers[0] = 65280
    /\ discrete_inputs[0] = TRUE
    /\ input_registers[0] = 1
    /\ input_registers[1] = 2
    /\ "v2" \in DOMAIN variables
    /\ variables["v2"].value = Number(65538)

\* update_variable changed a read-only cell after the request was answered
C39_Updated ==
    /\ hpc = "replied"
    /\ last.op = "update_variable"
    /\ discrete_inputs[0] = FALSE



\* C40: ModbusRequest::parse returns Ok or Err, and never aborts, for every
\* byte string and every value of the MBAP length field.
C40_ParseTotal == last.op = "parse" => last.result \in {"Ok", "Err"}

\* parse was given eight bytes or more whose length field is below 2
C40_ShortLength ==
    /\ last.op = "parse"
    /\ Len(last.values) >= 8
    /\ from_be_bytes(last.values[5], last.values[6]) < 2
    /\ from_be_bytes(last.values[3], last.values[4]) = 0

====
